---- MODULE Spec2Model ----
(***************************************************************************)
(* A model of the rosgo node runtime (ros/node.go): the defaultNode with   *)
(* its subscribers, publishers and service servers, the slave XML-RPC      *)
(* handlers, the job channel pumped by SpinOnce / Spin, and Shutdown.      *)
(***************************************************************************)
EXTENDS Integers, Sequences, FiniteSets, TLC

\* ------------------------------------------------------------------ bounds

\* NewSubscriber calls the user goroutine makes in one run.
MaxSubCalls == 2
\* NewPublisher / NewPublisherWithCallbacks calls in one run.
MaxPubCalls == 2
\* NewServiceServer calls in one run.
MaxSrvCalls == 2
\* Jobs the subscribers' goroutines put on the job channel in one run.
MaxJobs == 2
\* Shutdown calls in one run.
MaxShutdowns == 2
\* Slave XML-RPC handler goroutines that run at once.
MaxInflight == 2
\* Slave XML-RPC calls the peers make in one run.
MaxRpcCalls == 2
\* Protocols a peer offers in one requestTopic call.
MaxProtocols == 2
\* Capacity of a subscriber's pubListChan: buffered, 1 or more.
PubListCap == 1
\* the most tokens on a command line
MaxArgs == 2

\* ------------------------------------------------------- program constants

errorStatus == -1
failureStatus == 0
successStatus == 1
\* make(chan func(), 100)
JobChanCap == 100

\* ------------------------------------------------------------------- names

\* A name is its category and its path segments: "t" is relative <<"t">>,
\* "/ns/t" is global <<"ns", "t">>, "~t" is private <<"t">>.
GlobalName(path) == [kind |-> "global", path |-> path]
RelativeName(path) == [kind |-> "relative", path |-> path]

\* the node's namespace and name
NodeNamespace == <<"ns">>
NodeName == "node"

\* the remapping table built from the command line (pre-resolved)
Remapping == (GlobalName(<<"ns", "u">>) :> GlobalName(<<"w">>))

resolve(name) ==
    CASE name.kind = "global" -> name
      [] name.kind = "private" -> GlobalName(NodeNamespace \o <<NodeName>> \o name.path)
      [] OTHER -> GlobalName(NodeNamespace \o name.path)

remap(name) ==
    LET r == resolve(name)
    IN  IF r \in DOMAIN Remapping THEN Remapping[r] ELSE r

\* the topic names the user passes
UserTopics == { RelativeName(<<"t">>), GlobalName(<<"ns", "t">>), RelativeName(<<"u">>) }
\* the service names the user passes
UserServices == { RelativeName(<<"s">>) }
\* the topic names peers and Master pass to the slave API
SlaveTopics == { GlobalName(<<"ns", "t">>), GlobalName(<<"w">>), GlobalName(<<"ns", "u">>) }
\* the publisher URI lists Master sends
UriLists == { <<>>, <<"p1", "p2">> }
\* the ports the operating system gives a publisher's listener
Ports == { 7, 4711 }
\* the protocol names a peer offers in requestTopic
ProtocolNames == { "TCPROS", "UDPROS" }
\* the host name the node advertises
Hostname == "host"

AllTopics == UserTopics \cup SlaveTopics \cup { remap(t) : t \in UserTopics }

\* ------------------------------------------------------------------- state

VARIABLES
    ok,              \* node.ok
    interruptChan,   \* the signal goroutine: "armed" until it has read its signal
    xmlrpcListener,  \* "open" or "closed"
    subscribers,     \* node.subscribers: name -> subscriber
    publishers,      \* node.publishers: name -> publisher
    servers,         \* node.servers: name -> service server
    master,          \* the calls Master has received, per method and name
    jobChan,         \* node.jobChan: the queued jobs, oldest first
    nextJob,         \* the number of the next job a subscriber enqueues
    executed,        \* the jobs run so far, with who ran them and when
    lastSpinOnce,    \* what the last SpinOnce call found queued and whether it ran a job
    upc,             \* where the user goroutine is
    ulocal,          \* the locals of the operation the user goroutine is in
    subCalls,        \* the NewSubscriber calls made: resolved name, subscriber returned
    pubCalls,        \* the NewPublisher* calls made: topic passed, publisher returned
    srvCalls,        \* the number of NewServiceServer calls made
    shutdownCalls,   \* Shutdown calls begun
    shutdownReturned,\* Shutdown calls returned
    sdTrace,         \* the steps the current Shutdown call has made
    spc,             \* where the goroutine of `go node.Spin()` is
    handlers,        \* the slave XML-RPC handler goroutines
    rpcCalls,        \* slave XML-RPC calls received
    boot,            \* newDefaultNode: its inputs, where it is, what it has set
    ctx              \* the MsgContext, and what the last call on it returned

vars == << ok, interruptChan, xmlrpcListener, subscribers, publishers, servers,
           master, jobChan, nextJob, executed, lastSpinOnce, upc, ulocal, subCalls,
           pubCalls, srvCalls, shutdownCalls, shutdownReturned, sdTrace, spc, handlers,
           rpcCalls, boot, ctx >>

NoLocal == [op |-> "none"]
IdleHandler == [pc |-> "idle"]

\* the node once newDefaultNode has returned it
Booted == [pc |-> "running"]
\* no MsgContext is in use
NoCtx == [pc |-> "none"]

\* what newDefaultNode sets apart from ok and the listener
InitRuntime ==
    /\ interruptChan = "armed"
    /\ subscribers = << >>
    /\ publishers = << >>
    /\ servers = << >>
    /\ master = [m \in {"registerSubscriber", "registerPublisher"} |-> << >>]
    /\ jobChan = << >>
    /\ nextJob = 1
    /\ executed = << >>
    /\ lastSpinOnce = [queued |-> FALSE, ran |-> FALSE]
    /\ upc = "idle"
    /\ ulocal = NoLocal
    /\ subCalls = << >>
    /\ pubCalls = << >>
    /\ srvCalls = 0
    /\ shutdownCalls = 0
    /\ shutdownReturned = 0
    /\ sdTrace = << >>
    /\ spc = "off"
    /\ handlers = [h \in 1..MaxInflight |-> IdleHandler]
    /\ rpcCalls = 0

Init ==
    /\ ok = TRUE
    /\ xmlrpcListener = "open"
    /\ InitRuntime
    /\ boot = Booted
    /\ ctx = NoCtx

\* m with key k set to v (k added when absent)
Put(m, k, v) == [x \in DOMAIN m \cup {k} |-> IF x = k THEN v ELSE m[x]]

\* callRosAPI(masterURI, method, ..., name, ...): Master counts the call
callRosAPI(method, name) ==
    LET calls == master[method]
        n == IF name \in DOMAIN calls THEN calls[name] ELSE 0
    IN  [master EXCEPT ![method] = Put(calls, name, n + 1)]

\* ------------------------------------------------- entities (user goroutine)

\* newDefaultSubscriber(name, msgType, callback); `go sub.start(...)` runs it
newDefaultSubscriber(id, callback) ==
    [id |-> id, callbacks |-> <<callback>>, pubListChan |-> << >>, running |-> TRUE]

\* newDefaultPublisher(node, name, msgType, ...); `go pub.start(...)` runs it
newDefaultPublisher(id, port) ==
    [id |-> id, port |-> port, running |-> TRUE]

\* the background goroutines the node's waitGroup counts
waitGroup ==
    Cardinality({n \in DOMAIN subscribers : subscribers[n].running})
    + Cardinality({n \in DOMAIN publishers : publishers[n].running})

UserIdle == upc = "idle"

\* a callback put in front of the list instead of at its end
prependCallback(sub, callback) == [sub EXCEPT !.callbacks = << callback >> \o @]

\* sub.callbacks = append(sub.callbacks, callback)
appendCallback(sub, callback) == [sub EXCEPT !.callbacks = Append(@, callback)]

\* NewSubscriber up to `node.subscribers[name] = sub`, or to its return when
\* the subscriber exists: the k-th call passes callback k
NewSubscriber(topic) ==
    /\ UserIdle
    /\ Len(subCalls) < MaxSubCalls
    /\ LET name == remap(topic)
           callback == Len(subCalls) + 1
       IN  IF name \notin DOMAIN subscribers
           THEN \E list \in UriLists :
                  /\ master' = callRosAPI("registerSubscriber", name)
                  /\ upc' = "ns_store"
                  /\ ulocal' = [op |-> "NewSubscriber", name |-> name,
                                sub |-> newDefaultSubscriber(callback, callback),
                                publishers |-> list]
                  /\ UNCHANGED << subscribers, subCalls >>
           ELSE /\ subscribers' = [subscribers EXCEPT ![name] =
                                        appendCallback(@, callback)]
                /\ subCalls' = Append(subCalls,
                                      [name |-> name, ret |-> subscribers[name].id])
                /\ UNCHANGED << master, upc, ulocal >>
    /\ UNCHANGED << boot, ctx, ok, interruptChan, xmlrpcListener, publishers, servers, jobChan,
                    nextJob, lastSpinOnce, executed, pubCalls, srvCalls, shutdownCalls,
                    shutdownReturned, sdTrace, spc, handlers, rpcCalls >>

\* `node.subscribers[name] = sub` and `go sub.start(...)`
NewSubscriberStore ==
    /\ upc = "ns_store"
    /\ subscribers' = Put(subscribers, ulocal.name, ulocal.sub)
    /\ upc' = "ns_send"
    /\ UNCHANGED << boot, ctx, ok, interruptChan, xmlrpcListener, publishers, servers, master,
                    jobChan, nextJob, lastSpinOnce, executed, ulocal, subCalls, pubCalls,
                    srvCalls, shutdownCalls, shutdownReturned, sdTrace, spc, handlers,
                    rpcCalls >>

\* NewSubscriber from `sub.pubListChan <- publishers` to its return
NewSubscriberSend ==
    /\ upc = "ns_send"
    /\ LET name == ulocal.name
       IN  /\ Len(subscribers[name].pubListChan) < PubListCap
           /\ subscribers' = [subscribers EXCEPT ![name].pubListChan =
                                    Append(@, ulocal.publishers)]
           /\ subCalls' = Append(subCalls,
                                 [name |-> name, ret |-> subscribers[name].id])
    /\ upc' = "idle"
    /\ ulocal' = NoLocal
    /\ UNCHANGED << boot, ctx, ok, interruptChan, xmlrpcListener, publishers, servers, master,
                    jobChan, nextJob, lastSpinOnce, executed, pubCalls, srvCalls, shutdownCalls,
                    shutdownReturned, sdTrace, spc, handlers, rpcCalls >>

\* NewPublisherWithCallbacks(topic, ...): looked up by topic, stored by remap(topic)
NewPublisherWithCallbacks(topic, api) ==
    /\ UserIdle
    /\ Len(pubCalls) < MaxPubCalls
    /\ LET name == remap(topic)
           id == Len(pubCalls) + 1
       IN  IF topic \notin DOMAIN publishers
           THEN \E port \in Ports :
                  /\ master' = callRosAPI("registerPublisher", name)
                  /\ publishers' = Put(publishers, name, newDefaultPublisher(id, port))
                  /\ pubCalls' = Append(pubCalls, [api |-> api, topic |-> topic, ret |-> id])
           ELSE /\ pubCalls' = Append(pubCalls, [api |-> api, topic |-> topic,
                                                 ret |-> publishers[topic].id])
                /\ UNCHANGED << master, publishers >>
    /\ UNCHANGED << boot, ctx, ok, interruptChan, xmlrpcListener, subscribers, servers, jobChan,
                    nextJob, lastSpinOnce, executed, upc, ulocal, subCalls, srvCalls, shutdownCalls,
                    shutdownReturned, sdTrace, spc, handlers, rpcCalls >>

\* NewPublisher(topic, msgType): remaps, then calls NewPublisherWithCallbacks
NewPublisher(topic) ==
    NewPublisherWithCallbacks(remap(topic), "NewPublisher")

\* NewServiceServer(service, ...): created tells whether newDefaultServiceServer
\* returned a server
NewServiceServer(service, created) ==
    /\ UserIdle
    /\ srvCalls < MaxSrvCalls
    /\ srvCalls' = srvCalls + 1
    /\ LET name == remap(service)
           old == IF name \in DOMAIN servers
                  THEN [servers EXCEPT ![name].live = FALSE]
                  ELSE servers
       IN  servers' = IF created
                      THEN Put(old, name, [id |-> srvCalls + 1, live |-> TRUE])
                      ELSE old
    /\ UNCHANGED << boot, ctx, ok, interruptChan, xmlrpcListener, subscribers, publishers, master,
                    jobChan, nextJob, lastSpinOnce, executed, upc, ulocal, subCalls, pubCalls,
                    shutdownCalls, shutdownReturned, sdTrace, spc, handlers, rpcCalls >>

\* ------------------------------------- subscriber goroutines (sub.start)

\* the coordinator takes the next publisher list off its pubListChan
SubscriberReadPubList(name) ==
    /\ upc # "fatal"
    /\ name \in DOMAIN subscribers
    /\ subscribers[name].running
    /\ subscribers[name].pubListChan # << >>
    /\ subscribers' = [subscribers EXCEPT ![name].pubListChan = Tail(@)]
    /\ UNCHANGED << boot, ctx, ok, interruptChan, xmlrpcListener, publishers, servers, master,
                    jobChan, nextJob, lastSpinOnce, executed, upc, ulocal, subCalls, pubCalls,
                    srvCalls, shutdownCalls, shutdownReturned, sdTrace, spc, handlers,
                    rpcCalls >>

\* a message arrived: the subscriber puts a job (its callbacks bound to the
\* message) on the node's job channel
SubscriberEnqueueJob(name) ==
    /\ upc # "fatal"
    /\ name \in DOMAIN subscribers
    /\ subscribers[name].running
    /\ nextJob <= MaxJobs
    /\ Len(jobChan) < JobChanCap
    /\ jobChan' = Append(jobChan, nextJob)
    /\ nextJob' = nextJob + 1
    /\ UNCHANGED << boot, ctx, lastSpinOnce, ok, interruptChan, xmlrpcListener, subscribers, publishers, servers,
                    master, executed, upc, ulocal, subCalls, pubCalls, srvCalls,
                    shutdownCalls, shutdownReturned, sdTrace, spc, handlers, rpcCalls >>

\* ------------------------------------------------------------ the job pump

\* job() run by `by`: what the log keeps of it
RunJob(job, by) ==
    Append(executed, [job |-> job, by |-> by, ok |-> ok,
                      shutdownReturned |-> shutdownReturned])

\* a receive that takes the newest queued job instead of the oldest
ReceiveNewestJob(by) ==
    /\ jobChan # << >>
    /\ jobChan' = SubSeq(jobChan, 1, Len(jobChan) - 1)
    /\ executed' = RunJob(jobChan[Len(jobChan)], by)

\* select { case job := <-node.jobChan: job() ... }
ReceiveJob(by) ==
    /\ jobChan # << >>
    /\ jobChan' = Tail(jobChan)
    /\ executed' = RunJob(Head(jobChan), by)

\* select { ... case <-timeoutChan: break }
Timeout ==
    UNCHANGED << jobChan, executed >>

SpinOnce ==
    /\ UserIdle
    /\ \/ /\ ReceiveJob("SpinOnce")
          /\ lastSpinOnce' = [queued |-> TRUE, ran |-> TRUE]
       \/ /\ Timeout
          /\ lastSpinOnce' = [queued |-> jobChan # << >>, ran |-> FALSE]
    /\ UNCHANGED << boot, ctx, ok, interruptChan, xmlrpcListener, subscribers, publishers, servers,
                    master, nextJob, upc, ulocal, subCalls, pubCalls, srvCalls,
                    shutdownCalls, shutdownReturned, sdTrace, spc, handlers, rpcCalls >>

\* `go node.Spin()`
SpinStart ==
    /\ UserIdle
    /\ spc = "off"
    /\ spc' = "check"
    /\ UNCHANGED << boot, ctx, ok, interruptChan, xmlrpcListener, subscribers, publishers, servers,
                    master, jobChan, nextJob, lastSpinOnce, executed, upc, ulocal, subCalls, pubCalls,
                    srvCalls, shutdownCalls, shutdownReturned, sdTrace, handlers,
                    rpcCalls >>

\* node.OK()
OK == ok

\* a loop that goes on whatever OK() says
SpinCheckIgnoresOK ==
    /\ spc = "check"
    /\ spc' = "select"
    /\ UNCHANGED << boot, ctx, ok, interruptChan, xmlrpcListener, subscribers, publishers, servers,
                    master, jobChan, nextJob, lastSpinOnce, executed, upc, ulocal,
                    subCalls, pubCalls, srvCalls, shutdownCalls, shutdownReturned,
                    sdTrace, handlers, rpcCalls >>

\* for node.OK() { ... }
SpinCheck ==
    /\ spc = "check"
    /\ spc' = IF OK THEN "select" ELSE "done"
    /\ UNCHANGED << boot, ctx, ok, interruptChan, xmlrpcListener, subscribers, publishers, servers,
                    master, jobChan, nextJob, lastSpinOnce, executed, upc, ulocal, subCalls, pubCalls,
                    srvCalls, shutdownCalls, shutdownReturned, sdTrace, handlers,
                    rpcCalls >>

SpinSelect ==
    /\ spc = "select"
    /\ \/ ReceiveJob("Spin")
       \/ Timeout
    /\ spc' = "check"
    /\ UNCHANGED << boot, ctx, ok, interruptChan, xmlrpcListener, subscribers, publishers, servers,
                    master, nextJob, lastSpinOnce, upc, ulocal, subCalls, pubCalls, srvCalls,
                    shutdownCalls, shutdownReturned, sdTrace, handlers, rpcCalls >>

\* a signal goroutine that flips the flag instead of clearing it
InterruptFlipsOk ==
    /\ interruptChan = "armed"
    /\ interruptChan' = "done"
    /\ ok' = ~ok
    /\ UNCHANGED << boot, ctx, xmlrpcListener, subscribers, publishers, servers, master, jobChan,
                    nextJob, lastSpinOnce, executed, upc, ulocal, subCalls, pubCalls, srvCalls,
                    shutdownCalls, shutdownReturned, sdTrace, spc, handlers, rpcCalls >>

\* the signal goroutine: <-node.interruptChan, then ok = false
Interrupt ==
    /\ interruptChan = "armed"
    /\ interruptChan' = "done"
    /\ ok' = FALSE
    /\ UNCHANGED << boot, ctx, xmlrpcListener, subscribers, publishers, servers, master, jobChan,
                    nextJob, lastSpinOnce, executed, upc, ulocal, subCalls, pubCalls, srvCalls,
                    shutdownCalls, shutdownReturned, sdTrace, spc, handlers, rpcCalls >>

\* ---------------------------------------------------------------- Shutdown

\* s.Shutdown() of a subscriber: its goroutine is told to stop and is joined
SubscriberShutdown(sub) == [sub EXCEPT !.running = FALSE]

\* p.Shutdown() of a publisher: its listener and goroutine stop
PublisherShutdown(pub) == [pub EXCEPT !.running = FALSE]

\* s.Shutdown() of a service server
ServerShutdown(srv) == [srv EXCEPT !.live = FALSE]

\* a Shutdown that begins with the publishers and leaves the subscribers out
ShutdownBeginAtPublishers ==
    /\ UserIdle
    /\ shutdownCalls < MaxShutdowns
    /\ shutdownCalls' = shutdownCalls + 1
    /\ ok' = FALSE
    /\ upc' = "sd_publishers"
    /\ ulocal' = [op |-> "Shutdown", todo |-> DOMAIN publishers]
    /\ sdTrace' = << "ok" >>
    /\ UNCHANGED << boot, ctx, interruptChan, xmlrpcListener, subscribers, publishers, servers,
                    master, jobChan, nextJob, lastSpinOnce, executed, subCalls, pubCalls,
                    srvCalls, shutdownReturned, spc, handlers, rpcCalls >>

\* node.ok = false under okMutex, then the loop over node.subscribers begins
ShutdownBegin ==
    /\ UserIdle
    /\ shutdownCalls < MaxShutdowns
    /\ shutdownCalls' = shutdownCalls + 1
    /\ ok' = FALSE
    /\ upc' = "sd_subscribers"
    /\ ulocal' = [op |-> "Shutdown", todo |-> DOMAIN subscribers]
    /\ sdTrace' = << "ok" >>
    /\ UNCHANGED << boot, ctx, interruptChan, xmlrpcListener, subscribers, publishers, servers,
                    master, jobChan, nextJob, lastSpinOnce, executed, subCalls, pubCalls, srvCalls,
                    shutdownReturned, spc, handlers, rpcCalls >>

\* for _, s := range node.subscribers { s.Shutdown() }, then on to the publishers
ShutdownSubscribers ==
    /\ upc = "sd_subscribers"
    /\ IF ulocal.todo # {}
       THEN \E name \in ulocal.todo :
              /\ subscribers' = [subscribers EXCEPT ![name] = SubscriberShutdown(@)]
              /\ ulocal' = [ulocal EXCEPT !.todo = @ \ {name}]
              /\ sdTrace' = Append(sdTrace, "subscriber")
              /\ UNCHANGED upc
       ELSE /\ upc' = "sd_publishers"
            /\ ulocal' = [ulocal EXCEPT !.todo = DOMAIN publishers]
            /\ UNCHANGED << subscribers, sdTrace >>
    /\ UNCHANGED << boot, ctx, ok, interruptChan, xmlrpcListener, publishers, servers, master,
                    jobChan, nextJob, lastSpinOnce, executed, subCalls, pubCalls, srvCalls,
                    shutdownCalls, shutdownReturned, spc, handlers, rpcCalls >>

\* for _, p := range node.publishers { p.Shutdown() }, then on to the servers
ShutdownPublishers ==
    /\ upc = "sd_publishers"
    /\ IF ulocal.todo # {}
       THEN \E name \in ulocal.todo :
              /\ publishers' = [publishers EXCEPT ![name] = PublisherShutdown(@)]
              /\ ulocal' = [ulocal EXCEPT !.todo = @ \ {name}]
              /\ sdTrace' = Append(sdTrace, "publisher")
              /\ UNCHANGED upc
       ELSE /\ upc' = "sd_servers"
            /\ ulocal' = [ulocal EXCEPT !.todo = DOMAIN servers]
            /\ UNCHANGED << publishers, sdTrace >>
    /\ UNCHANGED << boot, ctx, ok, interruptChan, xmlrpcListener, subscribers, servers, master,
                    jobChan, nextJob, lastSpinOnce, executed, subCalls, pubCalls, srvCalls,
                    shutdownCalls, shutdownReturned, spc, handlers, rpcCalls >>

\* for _, s := range node.servers { s.Shutdown() }, then on to the wait
ShutdownServers ==
    /\ upc = "sd_servers"
    /\ IF ulocal.todo # {}
       THEN \E name \in ulocal.todo :
              /\ servers' = [servers EXCEPT ![name] = ServerShutdown(@)]
              /\ ulocal' = [ulocal EXCEPT !.todo = @ \ {name}]
              /\ sdTrace' = Append(sdTrace, "server")
              /\ UNCHANGED upc
       ELSE /\ upc' = "sd_wait"
            /\ ulocal' = NoLocal
            /\ UNCHANGED << servers, sdTrace >>
    /\ UNCHANGED << boot, ctx, ok, interruptChan, xmlrpcListener, subscribers, publishers, master,
                    jobChan, nextJob, lastSpinOnce, executed, subCalls, pubCalls, srvCalls,
                    shutdownCalls, shutdownReturned, spc, handlers, rpcCalls >>

\* node.waitGroup.Wait()
ShutdownWait ==
    /\ upc = "sd_wait"
    /\ waitGroup = 0
    /\ upc' = "sd_close"
    /\ sdTrace' = Append(sdTrace, "join")
    /\ UNCHANGED << boot, ctx, ok, interruptChan, xmlrpcListener, subscribers, publishers, servers,
                    master, jobChan, nextJob, lastSpinOnce, executed, ulocal, subCalls, pubCalls,
                    srvCalls, shutdownCalls, shutdownReturned, spc, handlers, rpcCalls >>

\* a Close that does not come back when the listener is closed already
ShutdownCloseOnce ==
    /\ upc = "sd_close"
    /\ xmlrpcListener = "open"
    /\ xmlrpcListener' = "closed"
    /\ upc' = "sd_drain"
    /\ sdTrace' = Append(sdTrace, "close")
    /\ UNCHANGED << boot, ctx, ok, interruptChan, subscribers, publishers, servers, master,
                    jobChan, nextJob, lastSpinOnce, executed, ulocal, subCalls, pubCalls,
                    srvCalls, shutdownCalls, shutdownReturned, spc, handlers, rpcCalls >>

\* node.xmlrpcListener.Close()
ShutdownClose ==
    /\ upc = "sd_close"
    /\ xmlrpcListener' = "closed"
    /\ upc' = "sd_drain"
    /\ sdTrace' = Append(sdTrace, "close")
    /\ UNCHANGED << boot, ctx, ok, interruptChan, subscribers, publishers, servers, master,
                    jobChan, nextJob, lastSpinOnce, executed, ulocal, subCalls, pubCalls, srvCalls,
                    shutdownCalls, shutdownReturned, spc, handlers, rpcCalls >>

\* the handlers the XML-RPC server is still running
InFlight == { h \in DOMAIN handlers : handlers[h].pc # "idle" }

\* xmlrpcHandler.WaitForShutdown(): returns when no handler is running
WaitForShutdown == InFlight = {}

\* a Shutdown that runs the queued jobs before it returns
ShutdownDrainRunsJobs ==
    /\ upc = "sd_drain"
    /\ WaitForShutdown
    /\ upc' = "idle"
    /\ shutdownReturned' = shutdownReturned + 1
    /\ sdTrace' = Append(sdTrace, "drain")
    /\ IF jobChan # << >>
       THEN /\ jobChan' = Tail(jobChan)
            /\ executed' = RunJob(Head(jobChan), "Shutdown")
       ELSE UNCHANGED << jobChan, executed >>
    /\ UNCHANGED << boot, ctx, ok, interruptChan, xmlrpcListener, subscribers, publishers, servers,
                    master, nextJob, lastSpinOnce, ulocal, subCalls, pubCalls,
                    srvCalls, shutdownCalls, spc, handlers, rpcCalls >>

\* node.xmlrpcHandler.WaitForShutdown(), then Shutdown returns
ShutdownDrain ==
    /\ upc = "sd_drain"
    /\ WaitForShutdown
    /\ upc' = "idle"
    /\ shutdownReturned' = shutdownReturned + 1
    /\ sdTrace' = Append(sdTrace, "drain")
    /\ UNCHANGED << boot, ctx, ok, interruptChan, xmlrpcListener, subscribers, publishers, servers,
                    master, jobChan, nextJob, lastSpinOnce, executed, ulocal, subCalls, pubCalls,
                    srvCalls, shutdownCalls, spc, handlers, rpcCalls >>

\* ------------------------------------------------------- slave XML-RPC API

\* buildRosAPIResult(code, message, value)
buildRosAPIResult(code, message, value) == << code, message, value >>

\* the handler goroutine a new call runs in: the first free one
FreeHandler(h) ==
    /\ xmlrpcListener = "open"
    /\ rpcCalls < MaxRpcCalls
    /\ handlers[h].pc = "idle"
    /\ \A g \in DOMAIN handlers : g < h => handlers[g].pc # "idle"

\* the call ends: the handler holds its result until the response is written
Return(h, call, result) ==
    handlers' = [handlers EXCEPT ![h] = [pc |-> "reply", call |-> call,
                                         result |-> result]]

\* the response is written and the handler goroutine is done
HandlerDone(h) ==
    /\ handlers[h].pc = "reply"
    /\ handlers' = [handlers EXCEPT ![h] = IdleHandler]
    /\ UNCHANGED << boot, ctx, ok, interruptChan, xmlrpcListener, subscribers, publishers, servers,
                    master, jobChan, nextJob, lastSpinOnce, executed, upc, ulocal, subCalls, pubCalls,
                    srvCalls, shutdownCalls, shutdownReturned, sdTrace, spc, rpcCalls >>

\* shutdown(callerID, msg)
shutdown(h) ==
    /\ FreeHandler(h)
    /\ rpcCalls' = rpcCalls + 1
    /\ ok' = FALSE
    /\ Return(h, [method |-> "shutdown"], buildRosAPIResult(successStatus, "Success", 0))
    /\ UNCHANGED << boot, ctx, interruptChan, xmlrpcListener, subscribers, publishers, servers,
                    master, jobChan, nextJob, lastSpinOnce, executed, upc, ulocal, subCalls, pubCalls,
                    srvCalls, shutdownCalls, shutdownReturned, sdTrace, spc >>

\* a copy that turns the list round
copyURIsReversed(uris) ==
    [i \in 1..Len(uris) |-> uris[Len(uris) + 1 - i]]

\* pubURIs := make([]string, len(publishers)), filled entry by entry
copyURIs(uris) ==
    [i \in 1..Len(uris) |-> uris[i]]

\* NewSubscriber is at its store into node.subscribers
Storing == upc = "ns_store"

\* the keys a lookup in node.subscribers without subscribersMutex can find:
\* those of the map, and while NewSubscriber stores into it those of the map
\* before the store or after it
SeenSubscribers ==
    { DOMAIN subscribers }
    \cup (IF Storing THEN { DOMAIN subscribers \cup { ulocal.name } } ELSE {})

\* "fatal error: concurrent map read and map write": the runtime ends the
\* process, no goroutine takes another step
Fatal ==
    /\ handlers' = [h \in DOMAIN handlers |-> [pc |-> "fatal"]]
    /\ upc' = "fatal"
    /\ spc' = "fatal"
    /\ interruptChan' = "fatal"

\* publisherUpdate up to `sub.pubListChan <- pubURIs`: the lookup of the
\* subscriber and the copy of the URIs
publisherUpdate(h, topic, uris) ==
    /\ FreeHandler(h)
    /\ rpcCalls' = rpcCalls + 1
    /\ LET call == [method |-> "publisherUpdate", topic |-> topic, publishers |-> uris]
       IN  \/ /\ \E seen \in SeenSubscribers :
                    IF topic \notin seen
                    THEN Return(h, call,
                                buildRosAPIResult(failureStatus, "No such topic", 0))
                    ELSE handlers' = [handlers EXCEPT ![h] =
                             [pc |-> "send", call |-> call,
                              pubURIs |-> copyURIs(uris)]]
              /\ UNCHANGED << upc, spc, interruptChan >>
           \/ /\ Storing
              /\ Fatal
    /\ UNCHANGED << boot, ctx, ok, xmlrpcListener, subscribers, publishers, servers, master,
                    jobChan, nextJob, lastSpinOnce, executed, ulocal, subCalls, pubCalls,
                    srvCalls, shutdownCalls, shutdownReturned, sdTrace >>

\* the channel a publisherUpdate handler sends on: its subscriber's
SendTarget(h) == handlers[h].call.topic

\* publisherUpdate from `sub.pubListChan <- pubURIs` to its return
publisherUpdateSend(h) ==
    /\ handlers[h].pc = "send"
    /\ LET name == SendTarget(h)
       IN  /\ name \in DOMAIN subscribers
           /\ Len(subscribers[name].pubListChan) < PubListCap
           /\ subscribers' = [subscribers EXCEPT ![name].pubListChan =
                                    Append(@, handlers[h].pubURIs)]
    /\ Return(h, handlers[h].call, buildRosAPIResult(successStatus, "Success", 0))
    /\ UNCHANGED << boot, ctx, ok, interruptChan, xmlrpcListener, publishers, servers, master,
                    jobChan, nextJob, lastSpinOnce, executed, upc, ulocal, subCalls, pubCalls,
                    srvCalls, shutdownCalls, shutdownReturned, sdTrace, spc, rpcCalls >>

\* a decimal string is the sequence of its digits
RECURSIVE FormatInt(_)
FormatInt(n) == IF n < 10 THEN << n >> ELSE FormatInt(n \div 10) \o << n % 10 >>

RECURSIVE ParseDigits(_, _)
ParseDigits(str, acc) ==
    IF str = << >> THEN acc ELSE ParseDigits(Tail(str), acc * 10 + Head(str))

\* the largest value of bit size 32
MaxInt32 == 2147483647

\* strconv.ParseInt(portStr, 10, 32)
ParseInt(str) ==
    IF str = << >> \/ ParseDigits(str, 0) > MaxInt32
    THEN [err |-> TRUE, p |-> 0]
    ELSE [err |-> FALSE, p |-> ParseDigits(str, 0)]

\* pub.hostAndPort(): the host and the port of the publisher's listener
hostAndPort(pub) == << Hostname, FormatInt(pub.port) >>

\* the protocol lists a peer offers: each entry is its name and parameters
ProtocolLists ==
    UNION { [1..n -> { << p >> : p \in ProtocolNames }] : n \in 0..MaxProtocols }

\* protocol lists with entries that carry no name: protocolParams[0] is out
\* of range for them
MalformedProtocolLists ==
    UNION { [1..n -> { << >> } \cup { << p >> : p \in ProtocolNames }]
              : n \in 1..MaxProtocols }
    \ ProtocolLists

\* a loop that goes on after a TCPROS entry and answers every one of them
RECURSIVE selectEveryProtocol(_, _, _)
selectEveryProtocol(pub, protocols, i) ==
    IF i > Len(protocols)
    THEN [err |-> FALSE, panic |-> FALSE, selected |-> << >>]
    ELSE LET rest == selectEveryProtocol(pub, protocols, i + 1)
             hp == hostAndPort(pub)
             parsed == ParseInt(hp[2])
         IN  IF protocols[i][1] # "TCPROS"
             THEN rest
             ELSE IF parsed.err
                  THEN [err |-> TRUE, panic |-> FALSE, selected |-> << >>]
                  ELSE [rest EXCEPT !.selected = << "TCPROS", hp[1], parsed.p >> \o @]

\* the loop of requestTopic over protocols, from entry i on: `panic` when
\* protocolParams[0] does not exist, `err` when ParseInt fails
RECURSIVE selectProtocol(_, _, _)
selectProtocol(pub, protocols, i) ==
    IF i > Len(protocols)
    THEN [err |-> FALSE, panic |-> FALSE, selected |-> << >>]
    ELSE LET protocolParams == protocols[i]
         IN  IF Len(protocolParams) = 0
             THEN [err |-> FALSE, panic |-> TRUE, selected |-> << >>]
             ELSE IF protocolParams[1] = "TCPROS"
                  THEN LET hp == hostAndPort(pub)
                           parsed == ParseInt(hp[2])
                       IN  IF parsed.err
                           THEN [err |-> TRUE, panic |-> FALSE, selected |-> << >>]
                           ELSE [err |-> FALSE, panic |-> FALSE,
                                 selected |-> << "TCPROS", hp[1], parsed.p >>]
                  ELSE selectProtocol(pub, protocols, i + 1)

\* what requestTopic(callerID, topic, protocols) answers
requestTopicResult(topic, protocols) ==
    IF topic \notin DOMAIN publishers
    THEN buildRosAPIResult(failureStatus, "No such topic", 0)
    ELSE LET sel == selectProtocol(publishers[topic], protocols, 1)
         IN  IF sel.panic
             THEN "panic"
             ELSE IF sel.err
                  THEN "error"
                  ELSE buildRosAPIResult(successStatus, "Success", sel.selected)

\* requestTopic(callerID, topic, protocols), under publishersMutex.RLock
requestTopic(h, topic, protocols) ==
    /\ FreeHandler(h)
    /\ rpcCalls' = rpcCalls + 1
    /\ Return(h, [method |-> "requestTopic", topic |-> topic, protocols |-> protocols],
              requestTopicResult(topic, protocols))
    /\ UNCHANGED << boot, ctx, ok, interruptChan, xmlrpcListener, subscribers, publishers, servers,
                    master, jobChan, nextJob, lastSpinOnce, executed, upc, ulocal, subCalls, pubCalls,
                    srvCalls, shutdownCalls, shutdownReturned, sdTrace, spc >>

\* a handler that only reads and answers at once
Answer(h, method, result) ==
    /\ FreeHandler(h)
    /\ rpcCalls' = rpcCalls + 1
    /\ Return(h, [method |-> method], result)
    /\ UNCHANGED << boot, ctx, ok, interruptChan, xmlrpcListener, subscribers, publishers, servers,
                    master, jobChan, nextJob, lastSpinOnce, executed, upc, ulocal, subCalls,
                    pubCalls, srvCalls, shutdownCalls, shutdownReturned, sdTrace, spc >>

\* node.masterURI, os.Getpid() and the name of the entities' message type
MasterURI == "http://master:11311"
Pid == 4242
MsgTypeName == "std_msgs/String"
\* the keys and values Master sends in paramUpdate
ParamKeys == { "/ns/node/rate" }
ParamValues == { 0, 10 }

getBusStats(h) ==
    Answer(h, "getBusStats", buildRosAPIResult(errorStatus, "Not implemented", 0))

getBusInfo(h) ==
    Answer(h, "getBusInfo", buildRosAPIResult(errorStatus, "Not implemented", 0))

getMasterURI(h) ==
    Answer(h, "getMasterURI", buildRosAPIResult(successStatus, "Success", MasterURI))

getPid(h) ==
    Answer(h, "getPid", buildRosAPIResult(successStatus, "Success", Pid))

paramUpdate(h, key, value) ==
    Answer(h, "paramUpdate", buildRosAPIResult(errorStatus, "Not implemented", 0))

\* the [name, type] pairs of a map of entities; the order of a range over a
\* map is not fixed, the pairs are kept as a set
NameTypePairs(entities) == { << name, MsgTypeName >> : name \in DOMAIN entities }

\* NewSubscriber holds subscribersMutex from its first line to its return
SubscribersLocked == upc \in { "ns_store", "ns_send" }

\* getSubscriptions(callerID), under subscribersMutex.RLock
getSubscriptions(h) ==
    /\ ~SubscribersLocked
    /\ Answer(h, "getSubscriptions",
              buildRosAPIResult(successStatus, "Success", NameTypePairs(subscribers)))

\* getPublications(callerID), under publishersMutex.RLock
getPublications(h) ==
    /\ Answer(h, "getPublications",
              buildRosAPIResult(successStatus, "Success", NameTypePairs(publishers)))

\* ---------------------------------------------- construction (newDefaultNode)

\* A string is the sequence of its pieces: ":=" and "_" are pieces of their
\* own, "127." is the piece a loopback IPv4 address starts with, and no other
\* piece holds any of them.
remapSep == ":="
Str(word) == << word >>
EmptyStr == << >>

\* strings.HasPrefix(s, prefix)
HasPrefix(s, prefix) ==
    /\ Len(s) >= Len(prefix)
    /\ SubSeq(s, 1, Len(prefix)) = prefix

\* the places of sep in s
SepPlaces(s, sep) == { i \in 1..Len(s) : s[i] = sep }

RECURSIVE Split(_, _)
\* strings.Split(s, sep): the pieces between the separators, one more than
\* there are separators
Split(s, sep) ==
    IF SepPlaces(s, sep) = {}
    THEN << s >>
    ELSE LET i == CHOOSE j \in SepPlaces(s, sep) : \A k \in SepPlaces(s, sep) : j <= k
         IN  << SubSeq(s, 1, i - 1) >> \o Split(SubSeq(s, i + 1, Len(s)), sep)

\* the four outputs of processArguments for no argument
NoArguments == [mapping |-> << >>, params |-> << >>, specials |-> << >>, rest |-> << >>]

\* the body of the loop of processArguments for one arg
processArgument(out, arg) ==
    LET components == Split(arg, remapSep)
        key == components[1]
        value == components[2]
    IN  IF Len(components) = 2
        THEN IF HasPrefix(key, << "_", "_" >>)
             THEN [out EXCEPT !.specials = Put(out.specials, key, value)]
             ELSE IF HasPrefix(key, << "_" >>)
                  THEN [out EXCEPT !.params = Put(out.params, Tail(key), value)]
                  ELSE [out EXCEPT !.mapping = Put(out.mapping, key, value)]
        ELSE [out EXCEPT !.rest = Append(out.rest, arg)]

RECURSIVE processArguments(_)
processArguments(args) ==
    IF args = << >>
    THEN NoArguments
    ELSE processArgument(processArguments(SubSeq(args, 1, Len(args) - 1)), args[Len(args)])

\* the keys of the specials newDefaultNode looks up
SpecialName == << "_", "_", "name" >>
SpecialNs == << "_", "_", "ns" >>
SpecialHostname == << "_", "_", "hostname" >>
SpecialIP == << "_", "_", "ip" >>
SpecialMaster == << "_", "_", "master" >>

\* the host names and addresses of the environment and the command line
Localhost == Str("localhost")
LoopbackV4 == << "127.", "0.0.1" >>
LoopbackV6 == Str("::1")
OsHostname == Str("host")
OtherHost == Str("host2")
\* the Master URIs of the environment and the command line
EnvMasterURI == Str(MasterURI)
ArgMasterURI == Str("http://alt:11311")

\* a host name or address that names this machine's loopback interface
IsLoopbackName(host) ==
    \/ host = Localhost
    \/ HasPrefix(host, << "127." >>)
    \/ host = LoopbackV6

\* determineHost(): ROS_HOSTNAME, else ROS_IP, else the machine's host name,
\* and whether that is a loopback name
determineHost(env) ==
    LET host == IF env.ROS_HOSTNAME # EmptyStr THEN env.ROS_HOSTNAME
                ELSE IF env.ROS_IP # EmptyStr THEN env.ROS_IP
                ELSE OsHostname
    IN  [hostname |-> host, onlyLocalhost |-> IsLoopbackName(host)]

\* node.hostname and onlyLocalhost after the specials are applied
resolveHost(env, specials) ==
    IF SpecialHostname \in DOMAIN specials
    THEN [hostname |-> specials[SpecialHostname],
          onlyLocalhost |-> specials[SpecialHostname] = Localhost]
    ELSE IF SpecialIP \in DOMAIN specials
         THEN [hostname |-> specials[SpecialIP],
               onlyLocalhost |-> \/ specials[SpecialIP] = LoopbackV6
                                 \/ HasPrefix(specials[SpecialIP], << "127." >>)]
         ELSE determineHost(env)

\* node.listenIP
listenIP(onlyLocalhost) == IF onlyLocalhost THEN "127.0.0.1" ELSE "0.0.0.0"

\* node.masterURI
resolveMasterURI(env, specials) ==
    IF SpecialMaster \in DOMAIN specials THEN specials[SpecialMaster] ELSE env.ROS_MASTER_URI

\* qualifyNodeName(name): a name that is not a valid node name is an error
ValidNodeNames == { Str("node") }
NodeNames == ValidNodeNames \cup { Str("bad name") }
qualifyNodeName(name) ==
    IF name \in ValidNodeNames
    THEN [err |-> FALSE, namespace |-> Str("/"), nodeName |-> name]
    ELSE [err |-> TRUE, namespace |-> EmptyStr, nodeName |-> EmptyStr]

\* node.qualifiedName
qualifiedName(namespace, name) ==
    IF Len(namespace) = 1 THEN namespace \o name ELSE namespace \o Str("/") \o name

\* the argument tokens a command line is made of
ArgTokens ==
    { SpecialName \o << remapSep, "n2" >>,
      << "_", "rate", remapSep, "10" >>,
      << "_", "rate", remapSep, "20" >>,
      << "topic", remapSep, "/t" >>,
      << "extra" >>,
      << "more" >>,
      << "a", remapSep, "b", remapSep, "c" >>,
      SpecialMaster \o << remapSep >> \o ArgMasterURI,
      SpecialHostname \o << remapSep >> \o LoopbackV4,
      SpecialHostname \o << remapSep >> \o Localhost,
      SpecialIP \o << remapSep >> \o Localhost,
      SpecialIP \o << remapSep >> \o LoopbackV6,
      SpecialIP \o << remapSep >> \o OtherHost }

\* the command lines: at most MaxArgs tokens
ArgLists == UNION { [1..n -> ArgTokens] : n \in 0..MaxArgs }

\* the environments: each variable unset (empty) or set
Environments ==
    [ ROS_MASTER_URI : { EmptyStr, EnvMasterURI },
      ROS_HOSTNAME : { EmptyStr, Localhost },
      ROS_IP : { EmptyStr, LoopbackV4 },
      masterUp : BOOLEAN ]

\* the state before NewNode(name, args) is called
InitBoot ==
    /\ ok = FALSE
    /\ xmlrpcListener = "none"
    /\ InitRuntime
    /\ ctx = NoCtx
    /\ \E name \in NodeNames, args \in ArgLists, env \in Environments :
           boot = [pc |-> "start", name |-> name, args |-> args, env |-> env]

\* newDefaultNode up to the loop over params (lines 91 to 175)
BootArguments ==
    /\ boot.pc = "start"
    /\ LET q == qualifyNodeName(boot.name)
           out == processArguments(boot.args)
           host == resolveHost(boot.env, out.specials)
           name == IF SpecialName \in DOMAIN out.specials
                   THEN out.specials[SpecialName] ELSE q.nodeName
           namespace == IF SpecialNs \in DOMAIN out.specials
                        THEN out.specials[SpecialNs] ELSE q.namespace
       IN  IF q.err
           THEN /\ boot' = [pc |-> "failed", name |-> boot.name, args |-> boot.args,
                            env |-> boot.env]
                /\ ok' = ok
           ELSE /\ boot' = [pc |-> "params", name |-> boot.name, args |-> boot.args,
                            env |-> boot.env,
                            mapping |-> out.mapping, params |-> out.params,
                            specials |-> out.specials, nonRosArgs |-> out.rest,
                            hostname |-> host.hostname,
                            listenIP |-> listenIP(host.onlyLocalhost),
                            masterURI |-> resolveMasterURI(boot.env, out.specials),
                            qualifiedName |-> qualifiedName(namespace, name),
                            pending |-> DOMAIN out.params,
                            setParams |-> << >>]
                /\ ok' = TRUE
    /\ UNCHANGED << ctx, interruptChan, xmlrpcListener, subscribers, publishers, servers,
                    master, jobChan, nextJob, lastSpinOnce, executed, upc, ulocal, subCalls,
                    pubCalls, srvCalls, shutdownCalls, shutdownReturned, sdTrace, spc,
                    handlers, rpcCalls >>

\* callRosAPI(node.masterURI, "setParam", ...) fails when there is no Master
\* at masterURI: no URI at all, or nothing answering there
MasterAnswers(b) == b.masterURI # EmptyStr /\ b.env.masterUp

\* one turn of the loop `for k, v := range params` (lines 178 to 183); the
\* range takes the keys in any order
BootSetParam ==
    /\ boot.pc = "params"
    /\ \E k \in boot.pending :
           IF MasterAnswers(boot)
           THEN boot' = [boot EXCEPT !.pending = @ \ { k },
                                     !.setParams = Append(@, << k, boot.params[k] >>)]
           ELSE boot' = [boot EXCEPT !.pc = "failed"]
    /\ UNCHANGED << ctx, ok, interruptChan, xmlrpcListener, subscribers, publishers, servers,
                    master, jobChan, nextJob, lastSpinOnce, executed, upc, ulocal, subCalls,
                    pubCalls, srvCalls, shutdownCalls, shutdownReturned, sdTrace, spc,
                    handlers, rpcCalls >>

\* newDefaultNode from net.Listen to its return (lines 185 to 220)
BootListen ==
    /\ boot.pc = "params"
    /\ boot.pending = {}
    /\ \E bound \in BOOLEAN :
           IF bound
           THEN /\ xmlrpcListener' = "open"
                /\ boot' = [boot EXCEPT !.pc = "running"]
           ELSE /\ xmlrpcListener' = xmlrpcListener
                /\ boot' = [boot EXCEPT !.pc = "failed"]
    /\ UNCHANGED << ctx, ok, interruptChan, subscribers, publishers, servers,
                    master, jobChan, nextJob, lastSpinOnce, executed, upc, ulocal, subCalls,
                    pubCalls, srvCalls, shutdownCalls, shutdownReturned, sdTrace, spc,
                    handlers, rpcCalls >>

\* newDefaultNode returned (nil, err)
BootFailed == boot.pc = "failed"
\* newDefaultNode returned (node, nil)
BootReturnedNode == boot.pc = "running" /\ boot # Booted

\* ------------------------------------------------ message specs (MsgContext)

\* A definition text is the sequence of its pieces: a line break, the three
\* characters `---`, the comment character `#`, and the text of a field or
\* of a constant (which holds none of the others).
NL == [k |-> "nl"]
Dashes == [k |-> "---"]
CommentChar == [k |-> "#"]
FieldText(package, type, name) ==
    [k |-> "field", Package |-> package, Type |-> type, Name |-> name]
ConstText(type, name, value) ==
    [k |-> "const", Type |-> type, Name |-> name, ValueText |-> value]

\* a full name `package/short`; the short name is a sequence of its parts so
\* that fullname + "Request" is the name with one more part
FullName(package, short) == [Package |-> package, Short |-> short]
Suffixed(fullname, suffix) == [fullname EXCEPT !.Short = Append(@, suffix)]

\* packageResourceName(fullname): a name without a package is an error
packageResourceName(fullname) ==
    [err |-> fullname.Package = "", packageName |-> fullname.Package,
     shortName |-> fullname.Short]

\* stripComment(line): the line up to its first `#`
stripComment(line) == Split(line, CommentChar)[1]

\* strings.Contains(cleanLine, ConstChar): the line holds a `=`
IsConstantLine(cleanLine) == \E i \in 1..Len(cleanLine) : cleanLine[i].k = "const"

\* loadConstantLine and loadFieldLine fail on a line that is not the text of
\* one constant, or of one field
IsWellFormedLine(cleanLine) ==
    Len(cleanLine) = 1 /\ cleanLine[1].k \in { "const", "field" }

IsNonEmptyLine(cleanLine) == Len(cleanLine) > 0
IsFieldLine(cleanLine) == ~IsConstantLine(cleanLine)

\* the first piece of each line
FirstPieces(lines) == [i \in 1..Len(lines) |-> lines[i][1]]
\* the lines of text without their comments, the empty ones left out
cleanLines(text) ==
    LET lines == Split(text, NL)
    IN  SelectSeq([i \in 1..Len(lines) |-> stripComment(lines[i])], IsNonEmptyLine)

\* the loop of LoadMsgFromString over the lines of text
parseLines(text) ==
    CHOOSE parsed \in
        { IF \E i \in 1..Len(clean) : ~IsWellFormedLine(clean[i])
          THEN [err |-> TRUE, fields |-> << >>, constants |-> << >>]
          ELSE [err |-> FALSE,
                fields |-> FirstPieces(SelectSeq(clean, IsFieldLine)),
                constants |-> FirstPieces(SelectSeq(clean, IsConstantLine))]
          : clean \in { cleanLines(text) } } : TRUE

\* NewMsgSpec(fields, constants, text, fullname, ...)
NewMsgSpec(fields, constants, text, fullname) ==
    [FullName |-> fullname, Text |-> text, Fields |-> fields, Constants |-> constants,
     MD5Sum |-> << >>]

\* the pieces of an MD5 text: the line of a constant, of a primitive field
\* (Field.String()) and of a field of message type
ConstantMD5Line(c) ==
    [k |-> "constant", Type |-> c.Type, Name |-> c.Name, ValueText |-> c.ValueText]
FieldString(f) == [k |-> "primitive", Type |-> f.Type, Name |-> f.Name]
SubMD5Line(submd5, f) == [k |-> "message", MD5 |-> submd5, Name |-> f.Name]

\* md5.Sum and hex.EncodeToString: the digest of a text, different for
\* different texts
MD5(text) == << "md5", text >>

RECURSIVE TrimLeft(_, _)
TrimLeft(s, cut) ==
    IF s # << >> /\ s[1] = cut THEN TrimLeft(Tail(s), cut) ELSE s
RECURSIVE TrimRight(_, _)
TrimRight(s, cut) ==
    IF s # << >> /\ s[Len(s)] = cut THEN TrimRight(SubSeq(s, 1, Len(s) - 1), cut) ELSE s
\* strings.Trim(s, cut)
Trim(s, cut) == TrimRight(TrimLeft(s, cut), cut)

\* the files of the ROS package paths: msgPathMap, srvPathMap and
\* actionPathMap give a full name its path, the path its text
PkgA == FullName("pkg", << "A" >>)
PkgB == FullName("pkg", << "B" >>)
PkgC == FullName("pkg", << "C" >>)
PkgGone == FullName("pkg", << "Gone" >>)
PkgS == FullName("pkg", << "S" >>)
PkgT == FullName("pkg", << "T" >>)
PkgAct == FullName("pkg", << "Act" >>)
MissingT == FullName("missing", << "T" >>)
NoPackage == FullName("", << "A" >>)
GoalID == FullName("actionlib_msgs", << "GoalID" >>)
GoalStatus == FullName("actionlib_msgs", << "GoalStatus" >>)

Primitive(type, name) == FieldText("", << type >>, name)
MessageField(fullname, name) == FieldText(fullname.Package, fullname.Short, name)

TextA == << ConstText("int32", "X", "1"), NL, Primitive("int32", "a"), NL >>
TextA2 == << CommentChar, NL, Primitive("string", "s") >>
TextB == << MessageField(PkgA, "a"), NL, NL, Primitive("string", "s"), CommentChar, NL >>
TextC == << ConstText("int32", "Y", "2"), NL, MessageField(MissingT, "t"), NL >>
TextBroken == << Primitive("int32", "a"), Primitive("int32", "b") >>

\* service texts: one separator line; none; `---` only in a comment; a
\* separator line and `---` in a comment; two separator lines; `---` inside a
\* longer line
SrvOneSeparator == << Primitive("int32", "a"), NL, Dashes, NL, Primitive("string", "s"), NL >>
SrvNoSeparator == << Primitive("int32", "a"), NL, Primitive("string", "s"), NL >>
SrvCommentDashes ==
    << Primitive("int32", "a"), CommentChar, Dashes, NL, Primitive("string", "s"), NL >>
SrvSeparatorAndComment ==
    << Primitive("int32", "a"), CommentChar, Dashes, NL, Dashes, NL, Primitive("string", "s") >>
SrvTwoSeparators ==
    << Primitive("int32", "a"), NL, Dashes, NL, Primitive("string", "s"), NL, Dashes, NL >>
SrvInlineDashes == << Primitive("int32", "a"), Dashes, Primitive("string", "s"), NL >>
SrvMissingRef == << MessageField(MissingT, "t"), NL, Dashes, NL, Primitive("string", "s") >>
\* a service text whose second section has a line that is no field
SrvBrokenResponse ==
    << Primitive("int32", "a"), NL, Dashes, NL, Primitive("string", "s"),
       Primitive("string", "t"), NL >>

\* action texts
ActTwoSeparators ==
    << Primitive("int32", "g"), NL, Dashes, NL, Primitive("int32", "r"), NL, Dashes, NL,
       Primitive("int32", "f"), NL >>
ActOneSeparator == SrvOneSeparator
ActCommentDashes ==
    << Primitive("int32", "g"), NL, Dashes, NL, Primitive("int32", "r"), CommentChar,
       Dashes, NL, Primitive("int32", "f"), NL >>
ActThreeSeparators == ActTwoSeparators \o << Dashes, NL >>

\* a path whose file cannot be read
NoFile == << [k |-> "unreadable"] >>

msgPathMap ==
    (PkgA :> TextA) @@ (PkgB :> TextB) @@ (PkgC :> TextC) @@ (PkgGone :> NoFile)
    @@ (GoalID :> << Primitive("string", "id") >>)
    @@ (GoalStatus :> << Primitive("uint8", "status") >>)
srvPathMap ==
    (PkgS :> SrvOneSeparator) @@ (PkgT :> SrvCommentDashes) @@ (PkgGone :> NoFile)
actionPathMap ==
    (PkgAct :> ActTwoSeparators) @@ (PkgT :> ActCommentDashes) @@ (PkgGone :> NoFile)

\* a call's outcome: the context after it, whether it gave an error, and
\* what it returned
Failed(c, why) == [c |-> c, err |-> TRUE, why |-> why, value |-> << >>]
Done(c, value) == [c |-> c, err |-> FALSE, why |-> "", value |-> value]

\* a statement `x := v` followed by the statements F(x): v is computed once
Then(v, F(_)) == CHOOSE out \in { F(x) : x \in { v } } : TRUE

\* Register(fullname, spec)
Register(c, fullname, spec) ==
    [c EXCEPT !.msgRegistry = Put(@, fullname, spec)]

\* ioutil.ReadFile(filePath): the context notes the read
ReadFile(c, fullname) == [c EXCEPT !.reads = Append(@, fullname)]

RECURSIVE LoadMsg(_, _)
RECURSIVE LoadMsgFromFile(_, _, _)
RECURSIVE LoadMsgFromString(_, _, _)
RECURSIVE ComputeMsgMD5(_, _)
RECURSIVE ComputeMD5Text(_, _)
RECURSIVE fieldsMD5Text(_, _, _, _)

\* the loop of ComputeMD5Text over spec.Fields from the i-th on; buf is what
\* has been written. A referenced message that cannot be loaded or hashed
\* ends the call with `return "", nil`.
fieldsMD5Text(c, fields, i, buf) ==
    IF i > Len(fields)
    THEN Done(c, Trim(buf, NL))
    ELSE IF fields[i].Package = ""
         THEN Then(buf \o << FieldString(fields[i]), NL >>, LAMBDA written :
                  fieldsMD5Text(c, fields, i + 1, written))
         ELSE Then(LoadMsg(c, FullName(fields[i].Package, fields[i].Type)), LAMBDA subspec :
                  IF subspec.err
                  THEN Done(subspec.c, << >>)
                  ELSE Then(ComputeMsgMD5(subspec.c, subspec.value), LAMBDA submd5 :
                           IF submd5.err
                           THEN Done(submd5.c, << >>)
                           ELSE Then(buf \o << SubMD5Line(submd5.value, fields[i]), NL >>,
                                     LAMBDA written :
                                         fieldsMD5Text(submd5.c, fields, i + 1, written))))

\* the constants of ComputeMD5Text: one line each, in source order
constantsMD5Text(constants) ==
    LET line(i) == IF i % 2 = 1 THEN ConstantMD5Line(constants[(i + 1) \div 2]) ELSE NL
    IN  [i \in 1..(2 * Len(constants)) |-> line(i)]

ComputeMD5Text(c, spec) ==
    Then(constantsMD5Text(spec.Constants), LAMBDA buf :
        fieldsMD5Text(c, spec.Fields, 1, buf))

ComputeMsgMD5(c, spec) ==
    Then(ComputeMD5Text(c, spec), LAMBDA md5text :
        IF md5text.err
        THEN Failed(md5text.c, md5text.why)
        ELSE Done(md5text.c, MD5(md5text.value)))

LoadMsgFromString(c, text, fullname) ==
    IF packageResourceName(fullname).err
    THEN Failed(c, "name")
    ELSE Then(parseLines(text), LAMBDA parsed :
             IF parsed.err
             THEN Failed(c, "syntax")
             ELSE Then(NewMsgSpec(parsed.fields, parsed.constants, text, fullname),
                       LAMBDA spec :
                  Then(ComputeMsgMD5(c, spec), LAMBDA md5sum :
                      IF md5sum.err
                      THEN Failed(md5sum.c, md5sum.why)
                      ELSE Then([spec EXCEPT !.MD5Sum = md5sum.value], LAMBDA hashed :
                               Done(Register(md5sum.c, fullname, hashed), hashed)))))

LoadMsgFromFile(c, file, fullname) ==
    IF file = NoFile
    THEN Failed(ReadFile(c, fullname), "file")
    ELSE Then(ReadFile(c, fullname), LAMBDA opened :
             LoadMsgFromString(opened, file, fullname))

LoadMsg(c, fullname) ==
    IF fullname \in DOMAIN c.msgRegistry
    THEN Done(c, c.msgRegistry[fullname])
    ELSE IF fullname \in DOMAIN msgPathMap
         THEN Then(LoadMsgFromFile(c, msgPathMap[fullname], fullname), LAMBDA loaded :
                  IF loaded.err
                  THEN loaded
                  ELSE Done(Register(loaded.c, fullname, loaded.value), loaded.value))
         ELSE Failed(c, "not found")

\* ComputeSrvMD5 that hashes the digests of the two texts
ComputeSrvMD5OfDigests(c, spec) ==
    Then(ComputeMD5Text(c, spec.Request), LAMBDA reqText :
        Then(ComputeMD5Text(reqText.c, spec.Response), LAMBDA resText :
            Done(resText.c, MD5(<< MD5(reqText.value), MD5(resText.value) >>))))

\* ComputeSrvMD5(spec): the request's text, then the response's
ComputeSrvMD5(c, spec) ==
    Then(ComputeMD5Text(c, spec.Request), LAMBDA reqText :
        IF reqText.err
        THEN Failed(reqText.c, reqText.why)
        ELSE Then(ComputeMD5Text(reqText.c, spec.Response), LAMBDA resText :
                 IF resText.err
                 THEN Failed(resText.c, resText.why)
                 ELSE Done(resText.c, MD5(reqText.value \o resText.value))))

\* ComputeActionMD5(spec): the texts of ActionGoal, ActionFeedback, ActionResult
ComputeActionMD5(c, spec) ==
    Then(ComputeMD5Text(c, spec.ActionGoal), LAMBDA goalText :
        IF goalText.err
        THEN Failed(goalText.c, goalText.why)
        ELSE Then(ComputeMD5Text(goalText.c, spec.ActionFeedback), LAMBDA feedbackText :
                 IF feedbackText.err
                 THEN Failed(feedbackText.c, feedbackText.why)
                 ELSE Then(ComputeMD5Text(feedbackText.c, spec.ActionResult),
                           LAMBDA resultText :
                               IF resultText.err
                               THEN Failed(resultText.c, resultText.why)
                               ELSE Done(resultText.c,
                                         MD5(goalText.value \o feedbackText.value
                                             \o resultText.value)))))

\* LoadSrvFromString(text, fullname)
LoadSrvFromString(c, text, fullname) ==
    IF packageResourceName(fullname).err
    THEN Failed(c, "name")
    ELSE Then(Split(text, Dashes), LAMBDA components :
        IF Len(components) # 2
        THEN Failed(c, "missing ---")
        ELSE
        Then(LoadMsgFromString(c, components[1], Suffixed(fullname, "Request")),
             LAMBDA reqSpec :
        IF reqSpec.err THEN reqSpec ELSE
        Then(LoadMsgFromString(reqSpec.c, components[2], Suffixed(fullname, "Response")),
             LAMBDA resSpec :
        IF resSpec.err THEN resSpec ELSE
        Then([FullName |-> fullname, Text |-> text, MD5Sum |-> << >>,
              Request |-> reqSpec.value, Response |-> resSpec.value],
             LAMBDA spec :
        Then(ComputeSrvMD5(resSpec.c, spec), LAMBDA md5sum :
        IF md5sum.err THEN md5sum ELSE
        Done(md5sum.c, [spec EXCEPT !.MD5Sum = md5sum.value]))))))

LoadSrvFromFile(c, file, fullname) ==
    IF file = NoFile
    THEN Failed(ReadFile(c, fullname), "file")
    ELSE Then(ReadFile(c, fullname), LAMBDA opened :
             LoadSrvFromString(opened, file, fullname))

LoadSrv(c, fullname) ==
    IF fullname \in DOMAIN srvPathMap
    THEN LoadSrvFromFile(c, srvPathMap[fullname], fullname)
    ELSE Failed(c, "not found")

\* the texts LoadActionFromString makes for the three top-level messages
Header == Primitive("Header", "header")
actionGoalText(fullname) ==
    << Header, NL, MessageField(GoalID, "goal_id"), NL,
       MessageField(Suffixed(fullname, "Goal"), "goal"), NL >>
actionFeedbackText(fullname) ==
    << Header, NL, MessageField(GoalStatus, "status"), NL,
       MessageField(Suffixed(fullname, "Feedback"), "feedback") >>
actionResultText(fullname) ==
    << Header, NL, MessageField(GoalStatus, "status"), NL,
       MessageField(Suffixed(fullname, "Result"), "result") >>

\* the sections taken in the order the action's MD5 takes the messages
actionSectionsInMD5Order(components) ==
    [goalText |-> components[1], feedbackText |-> components[2],
     resultText |-> components[3]]

\* the three sections of an action text: goal, result, feedback
actionSections(components) ==
    [goalText |-> components[1], resultText |-> components[2],
     feedbackText |-> components[3]]

\* LoadActionFromString(text, fullname)
LoadActionFromString(c, text, fullname) ==
    IF packageResourceName(fullname).err
    THEN Failed(c, "name")
    ELSE Then(Split(text, Dashes), LAMBDA components :
        IF Len(components) # 3
        THEN Failed(c, "missing ---")
        ELSE
        Then(actionSections(components), LAMBDA texts :
        Then(LoadMsgFromString(c, texts.goalText, Suffixed(fullname, "Goal")),
             LAMBDA goalSpec :
        IF goalSpec.err THEN goalSpec ELSE
        Then(LoadMsgFromString(goalSpec.c, actionGoalText(fullname),
                               Suffixed(fullname, "ActionGoal")),
             LAMBDA actionGoalSpec :
        IF actionGoalSpec.err THEN actionGoalSpec ELSE
        Then(LoadMsgFromString(actionGoalSpec.c, texts.feedbackText,
                               Suffixed(fullname, "Feedback")),
             LAMBDA feedbackSpec :
        IF feedbackSpec.err THEN feedbackSpec ELSE
        Then(LoadMsgFromString(feedbackSpec.c, actionFeedbackText(fullname),
                               Suffixed(fullname, "ActionFeedback")),
             LAMBDA actionFeedbackSpec :
        IF actionFeedbackSpec.err THEN actionFeedbackSpec ELSE
        Then(LoadMsgFromString(actionFeedbackSpec.c, texts.resultText,
                               Suffixed(fullname, "Result")),
             LAMBDA resultSpec :
        IF resultSpec.err THEN resultSpec ELSE
        Then(LoadMsgFromString(resultSpec.c, actionResultText(fullname),
                               Suffixed(fullname, "ActionResult")),
             LAMBDA actionResultSpec :
        IF actionResultSpec.err THEN actionResultSpec ELSE
        Then([FullName |-> fullname, Text |-> text, MD5Sum |-> << >>,
              Goal |-> goalSpec.value, Feedback |-> feedbackSpec.value,
              Result |-> resultSpec.value, ActionGoal |-> actionGoalSpec.value,
              ActionFeedback |-> actionFeedbackSpec.value,
              ActionResult |-> actionResultSpec.value],
             LAMBDA spec :
        Then(ComputeActionMD5(actionResultSpec.c, spec), LAMBDA md5sum :
        IF md5sum.err THEN md5sum ELSE
        Done(md5sum.c, [spec EXCEPT !.MD5Sum = md5sum.value])))))))))))

LoadActionFromFile(c, file, fullname) ==
    IF file = NoFile
    THEN Failed(ReadFile(c, fullname), "file")
    ELSE Then(ReadFile(c, fullname), LAMBDA opened :
             LoadActionFromString(opened, file, fullname))

LoadAction(c, fullname) ==
    IF fullname \in DOMAIN actionPathMap
    THEN LoadActionFromFile(c, actionPathMap[fullname], fullname)
    ELSE Failed(c, "not found")

\* NewMsgContext(rosPkgPaths): the path maps found, an empty registry
NewMsgContext ==
    [pc |-> "ready", msgRegistry |-> << >>, last |-> [op |-> "NewMsgContext"]]

InitCtx ==
    /\ ok = TRUE
    /\ xmlrpcListener = "open"
    /\ InitRuntime
    /\ boot = Booted
    /\ ctx = NewMsgContext

\* the context a call starts on: the registry, and no file read yet
Entry == [msgRegistry |-> ctx.msgRegistry, reads |-> << >>]

\* the context once a call on it has returned out
Returned(op, fullname, text, out) ==
    [pc |-> "ready", msgRegistry |-> out.c.msgRegistry,
     last |-> [op |-> op, fullname |-> fullname, text |-> text,
               err |-> out.err, why |-> out.why, value |-> out.value,
               reads |-> out.c.reads]]

\* the names and texts the user passes
MsgNames == { PkgA, PkgB, PkgC, PkgGone, MissingT, Suffixed(PkgS, "Request") }
MsgStringNames == { PkgA, NoPackage }
MsgTexts == { TextA, TextA2, TextC, TextBroken }
SrvNames == { PkgS, PkgT, PkgGone, MissingT }
SrvStringNames == { PkgS, NoPackage }
SrvTexts == { SrvOneSeparator, SrvNoSeparator, SrvCommentDashes, SrvSeparatorAndComment,
              SrvTwoSeparators, SrvInlineDashes, SrvMissingRef, SrvBrokenResponse }
ActionNames == { PkgAct, PkgT, PkgGone, MissingT }
ActionStringNames == { PkgAct, NoPackage }
ActionTexts == { ActTwoSeparators, ActOneSeparator, ActCommentDashes, ActThreeSeparators }

CallLoadMsg ==
    /\ ctx.pc = "ready"
    /\ \E fullname \in MsgNames :
           ctx' = Returned("LoadMsg", fullname, << >>, LoadMsg(Entry, fullname))
    /\ UNCHANGED << boot, ok, interruptChan, xmlrpcListener, subscribers, publishers, servers,
                    master, jobChan, nextJob, lastSpinOnce, executed, upc, ulocal, subCalls,
                    pubCalls, srvCalls, shutdownCalls, shutdownReturned, sdTrace, spc,
                    handlers, rpcCalls >>

CallLoadMsgFromString ==
    /\ ctx.pc = "ready"
    /\ \E text \in MsgTexts, fullname \in MsgStringNames :
           ctx' = Returned("LoadMsgFromString", fullname, text,
                           LoadMsgFromString(Entry, text, fullname))
    /\ UNCHANGED << boot, ok, interruptChan, xmlrpcListener, subscribers, publishers, servers,
                    master, jobChan, nextJob, lastSpinOnce, executed, upc, ulocal, subCalls,
                    pubCalls, srvCalls, shutdownCalls, shutdownReturned, sdTrace, spc,
                    handlers, rpcCalls >>

CallLoadSrv ==
    /\ ctx.pc = "ready"
    /\ \E fullname \in SrvNames :
           ctx' = Returned("LoadSrv", fullname, << >>, LoadSrv(Entry, fullname))
    /\ UNCHANGED << boot, ok, interruptChan, xmlrpcListener, subscribers, publishers, servers,
                    master, jobChan, nextJob, lastSpinOnce, executed, upc, ulocal, subCalls,
                    pubCalls, srvCalls, shutdownCalls, shutdownReturned, sdTrace, spc,
                    handlers, rpcCalls >>

CallLoadSrvFromString ==
    /\ ctx.pc = "ready"
    /\ \E text \in SrvTexts, fullname \in SrvStringNames :
           ctx' = Returned("LoadSrvFromString", fullname, text,
                           LoadSrvFromString(Entry, text, fullname))
    /\ UNCHANGED << boot, ok, interruptChan, xmlrpcListener, subscribers, publishers, servers,
                    master, jobChan, nextJob, lastSpinOnce, executed, upc, ulocal, subCalls,
                    pubCalls, srvCalls, shutdownCalls, shutdownReturned, sdTrace, spc,
                    handlers, rpcCalls >>

CallLoadAction ==
    /\ ctx.pc = "ready"
    /\ \E fullname \in ActionNames :
           ctx' = Returned("LoadAction", fullname, << >>, LoadAction(Entry, fullname))
    /\ UNCHANGED << boot, ok, interruptChan, xmlrpcListener, subscribers, publishers, servers,
                    master, jobChan, nextJob, lastSpinOnce, executed, upc, ulocal, subCalls,
                    pubCalls, srvCalls, shutdownCalls, shutdownReturned, sdTrace, spc,
                    handlers, rpcCalls >>

CallLoadActionFromString ==
    /\ ctx.pc = "ready"
    /\ \E text \in ActionTexts, fullname \in ActionStringNames :
           ctx' = Returned("LoadActionFromString", fullname, text,
                           LoadActionFromString(Entry, text, fullname))
    /\ UNCHANGED << boot, ok, interruptChan, xmlrpcListener, subscribers, publishers, servers,
                    master, jobChan, nextJob, lastSpinOnce, executed, upc, ulocal, subCalls,
                    pubCalls, srvCalls, shutdownCalls, shutdownReturned, sdTrace, spc,
                    handlers, rpcCalls >>

\* the user hashes a spec the context holds
CallComputeMsgMD5 ==
    /\ ctx.pc = "ready"
    /\ \E fullname \in DOMAIN ctx.msgRegistry :
           ctx' = Returned("ComputeMsgMD5", fullname, << >>,
                           ComputeMsgMD5(Entry, ctx.msgRegistry[fullname]))
    /\ UNCHANGED << boot, ok, interruptChan, xmlrpcListener, subscribers, publishers, servers,
                    master, jobChan, nextJob, lastSpinOnce, executed, upc, ulocal, subCalls,
                    pubCalls, srvCalls, shutdownCalls, shutdownReturned, sdTrace, spc,
                    handlers, rpcCalls >>

\* ------------------------------------------------------- the whole program

SubscriberCreate ==
    \/ \E topic \in UserTopics : NewSubscriber(topic)
    \/ NewSubscriberStore
    \/ NewSubscriberSend

PublisherCreate ==
    \/ \E topic \in UserTopics : NewPublisher(topic)
    \/ \E topic \in UserTopics : NewPublisherWithCallbacks(topic, "NewPublisherWithCallbacks")

\* the node's first publisher: the user creates one and no more
PublisherCreateOnce ==
    /\ pubCalls = << >>
    /\ PublisherCreate

ServerCreate ==
    \E service \in UserServices, created \in BOOLEAN : NewServiceServer(service, created)

Shutdown ==
    \/ ShutdownBegin
    \/ ShutdownSubscribers
    \/ ShutdownPublishers
    \/ ShutdownServers
    \/ ShutdownWait
    \/ ShutdownClose
    \/ ShutdownDrain

Spin == SpinCheck \/ SpinSelect

SubscriberCoordinator == \E name \in AllTopics : SubscriberReadPubList(name)

SubscriberMessage == \E name \in AllTopics : SubscriberEnqueueJob(name)

SlaveShutdown == \E h \in 1..MaxInflight : shutdown(h)

SlavePublisherUpdate ==
    \E h \in 1..MaxInflight :
        \/ \E topic \in SlaveTopics, uris \in UriLists : publisherUpdate(h, topic, uris)
        \/ publisherUpdateSend(h)

SlaveRequestTopic ==
    \E h \in 1..MaxInflight, topic \in SlaveTopics, protocols \in ProtocolLists :
        requestTopic(h, topic, protocols)

\* a peer sends a protocol list with an entry that has no name
SlaveRequestTopicMalformed ==
    \E h \in 1..MaxInflight, topic \in SlaveTopics, protocols \in MalformedProtocolLists :
        requestTopic(h, topic, protocols)

SlaveInfo ==
    \E h \in 1..MaxInflight :
        \/ getBusStats(h) \/ getBusInfo(h) \/ getMasterURI(h) \/ getPid(h)
        \/ \E key \in ParamKeys, value \in ParamValues : paramUpdate(h, key, value)

SlaveLists ==
    \E h \in 1..MaxInflight : getSubscriptions(h) \/ getPublications(h)

SlaveDone == \E h \in 1..MaxInflight : HandlerDone(h)

\* the node with everything that can run in it
Next ==
    \/ SubscriberCreate \/ PublisherCreate \/ ServerCreate
    \/ SpinOnce \/ SpinStart \/ Spin \/ Shutdown
    \/ SubscriberCoordinator \/ SubscriberMessage
    \/ SlaveShutdown \/ SlavePublisherUpdate \/ SlaveRequestTopic \/ SlaveDone
    \/ SlaveRequestTopicMalformed \/ SlaveInfo \/ SlaveLists
    \/ Interrupt
    \/ BootArguments \/ BootSetParam \/ BootListen
    \/ CallLoadMsg \/ CallLoadMsgFromString \/ CallLoadSrv \/ CallLoadSrvFromString
    \/ CallLoadAction \/ CallLoadActionFromString \/ CallComputeMsgMD5

Spec == Init /\ [][Next]_vars

\* the node's first service server: the user creates one and no more
ServerCreateOnce ==
    /\ srvCalls = 0
    /\ ServerCreate

\* the job pump: subscribers queue jobs, SpinOnce and Spin run them, while the
\* node is shut down, interrupted or told to shut down by a peer
NextPump ==
    \/ SubscriberCreate
    \/ SubscriberMessage
    \/ SpinOnce \/ SpinStart \/ Spin \/ Shutdown
    \/ SlaveShutdown \/ SlaveDone
    \/ Interrupt

SpecPump == Init /\ [][NextPump]_vars

\* Spin is scheduled: a goroutine that can take a step takes one
FairPump == SpecPump /\ WF_vars(Spin)

\* the life of the entities: created, fed, shut down by Shutdown
NextLife ==
    \/ SubscriberCreate \/ PublisherCreateOnce \/ ServerCreateOnce
    \/ SubscriberCoordinator \/ SubscriberMessage
    \/ Shutdown

SpecLife == Init /\ [][NextLife]_vars

\* the user goroutine is scheduled while it is inside Shutdown
FairLife == SpecLife /\ WF_vars(Shutdown)

\* Master's publisherUpdate calls against the subscribers
NextUpdate ==
    \/ SubscriberCreate
    \/ SubscriberCoordinator
    \/ SlavePublisherUpdate \/ SlaveDone
    \/ Shutdown

SpecUpdate == Init /\ [][NextUpdate]_vars

\* every goroutine that can take a step takes one: the coordinators, the
\* handlers at their send and at their return, the user goroutine inside
\* Shutdown and NewSubscriber
FairUpdate ==
    /\ SpecUpdate
    /\ WF_vars(SubscriberCoordinator)
    /\ \A h \in 1..MaxInflight : WF_vars(publisherUpdateSend(h))
    /\ WF_vars(SlaveDone)
    /\ WF_vars(Shutdown)
    /\ WF_vars(NewSubscriberStore)
    /\ WF_vars(NewSubscriberSend)

\* the peers' requestTopic calls against the publishers
NextRequest ==
    \/ PublisherCreateOnce
    \/ SlaveRequestTopic \/ SlaveDone
    \/ Shutdown

SpecRequest == Init /\ [][NextRequest]_vars

\* the user creating publishers, again and again for the same topics, while
\* peers ask for them with requestTopic
NextPublish ==
    \/ PublisherCreate
    \/ SlaveRequestTopic \/ SlaveDone

SpecPublish == Init /\ [][NextPublish]_vars

\* the user creating service servers, again and again for the same service,
\* next to a publisher, until the node is shut down
NextServe ==
    \/ ServerCreate
    \/ PublisherCreateOnce
    \/ Shutdown

SpecServe == Init /\ [][NextServe]_vars

\* the peers' and Master's calls of every slave API method; the protocol
\* lists of requestTopic are those with an entry without name, before or
\* after a TCPROS entry
NextSlave ==
    \/ SubscriberCreate \/ PublisherCreateOnce
    \/ SlaveShutdown \/ SlavePublisherUpdate
    \/ SlaveRequestTopicMalformed \/ SlaveInfo \/ SlaveLists
    \/ SlaveDone

SpecSlave == Init /\ [][NextSlave]_vars

\* node construction alone: NewNode(name, args) in every environment
NextBoot ==
    \/ BootArguments
    \/ BootSetParam
    \/ BootListen

SpecBoot == InitBoot /\ [][NextBoot]_vars

\* the message context, loading by name: messages, services and actions of
\* the package paths, messages from a text, hashes, in any order
NextLoad ==
    \/ CallLoadMsg \/ CallLoadMsgFromString
    \/ CallLoadSrv \/ CallLoadAction
    \/ CallComputeMsgMD5

SpecLoad == InitCtx /\ [][NextLoad]_vars

\* the message context, loading services and actions from a text
NextText ==
    \/ CallLoadSrvFromString \/ CallLoadActionFromString
    \/ CallLoadMsg

SpecText == InitCtx /\ [][NextText]_vars

\* ================================================================== claims

\* the user goroutine is inside Shutdown
InShutdown ==
    upc \in { "sd_subscribers", "sd_publishers", "sd_servers", "sd_wait", "sd_close",
              "sd_drain" }

\* every subscriber, publisher and service server of the node is shut down
AllShutDown ==
    /\ \A n \in DOMAIN subscribers : ~subscribers[n].running
    /\ \A n \in DOMAIN publishers : ~publishers[n].running
    /\ \A n \in DOMAIN servers : ~servers[n].live

\* the entities that are shut down, as they are
ShutDownEntities ==
    << [n \in { x \in DOMAIN subscribers : ~subscribers[x].running } |-> subscribers[n]],
       [n \in { x \in DOMAIN publishers : ~publishers[x].running } |-> publishers[n]],
       [n \in { x \in DOMAIN servers : ~servers[x].live } |-> servers[n]] >>

\* a step of a Shutdown call that is not the first
LaterShutdownStep == Shutdown /\ shutdownCalls' >= 2

\* C1: a Shutdown call made after an earlier one has returned returns too, and
\* leaves the node as the first did: ok false, every entity shut down, the
\* XML-RPC listener closed; none of its steps changes ok, the listener, the
\* job channel or an entity that was shut down already.
C1_ShutdownIdempotent ==
    /\ (shutdownCalls >= 2) ~> (shutdownReturned = shutdownCalls)
    /\ [][ (LaterShutdownStep /\ shutdownReturned' = shutdownReturned + 1)
              => (~ok' /\ AllShutDown' /\ xmlrpcListener' = "closed") ]_vars
    /\ [][ LaterShutdownStep
              => /\ ~ok /\ ~ok'
                 /\ xmlrpcListener = "closed" /\ xmlrpcListener' = "closed"
                 /\ jobChan' = jobChan
                 /\ \A i \in 1..3 :
                      \A n \in DOMAIN ShutDownEntities[i] :
                         /\ n \in DOMAIN ShutDownEntities'[i]
                         /\ ShutDownEntities'[i][n] = ShutDownEntities[i][n] ]_vars

\* a second Shutdown has returned on a node with a subscriber, a publisher, a
\* service server and a queued job
C1_Witness ==
    /\ shutdownReturned = 2
    /\ upc = "idle"
    /\ DOMAIN subscribers # {}
    /\ DOMAIN publishers # {}
    /\ DOMAIN servers # {}
    /\ jobChan # << >>
    /\ AllShutDown

\* the positions of the log
Ran == 1..Len(executed)

\* C2: no job is started once a Shutdown call has returned.
C2_NoJobAfterShutdown ==
    \A i \in Ran : executed[i].shutdownReturned = 0

\* C3: a job is run only inside SpinOnce or Spin: every step that runs a job
\* is a step of one of them, and the log names no one else.
C3_JobsRunOnlyInSpin ==
    /\ [][ executed' # executed => (SpinOnce \/ SpinSelect) ]_vars
    /\ [](\A i \in Ran : executed[i].by \in { "SpinOnce", "Spin" })

\* SpinOnce and Spin have both run a job, a peer's shutdown call is in flight,
\* the signal goroutine has run and the user goroutine is inside Shutdown
C3_Witness ==
    /\ \E i \in Ran : executed[i].by = "SpinOnce"
    /\ \E i \in Ran : executed[i].by = "Spin"
    /\ InFlight # {}
    /\ interruptChan = "done"
    /\ InShutdown

\* C4: a publisherUpdate call that has found its subscriber gets past its
\* send on the subscriber's pubListChan and returns.
C4_PublisherUpdateReturns ==
    \A h \in 1..MaxInflight :
        (handlers[h].pc = "send") ~> (handlers[h].pc # "send")

\* the step of handler h in which a publisherUpdate call returns
PublisherUpdateReturns(h) ==
    /\ handlers[h].pc \in { "idle", "send" }
    /\ handlers'[h].pc = "reply"
    /\ handlers'[h].call.method = "publisherUpdate"

\* some pubListChan other than those of `names` changes in the step
DeliversOutside(names) ==
    \E n \in DOMAIN subscribers' \ names :
        n \notin DOMAIN subscribers
        \/ subscribers'[n].pubListChan # subscribers[n].pubListChan

\* what C5 says of the return of handler h
PublisherUpdateContract(h) ==
    LET call == handlers'[h].call
        code == handlers'[h].result[1]
    IN  IF call.topic \notin DOMAIN subscribers
        THEN /\ code = failureStatus
             /\ subscribers' = subscribers
        ELSE /\ code = successStatus
             /\ subscribers'[call.topic].pubListChan =
                    Append(subscribers[call.topic].pubListChan, call.publishers)
             /\ ~DeliversOutside({ call.topic })

\* C5: publisherUpdate returns failure status and delivers nothing when the
\* node has no subscriber for the topic; otherwise it puts exactly the URI
\* list it was given, in that order, on the pubListChan of that topic's
\* subscriber, on no other, and returns success status.
C5_PublisherUpdate ==
    [][\A h \in 1..MaxInflight :
          PublisherUpdateReturns(h) => PublisherUpdateContract(h)]_vars

\* one call has returned failure for a topic without subscriber, another has
\* delivered a list of two URIs while a second subscriber exists
C5_Witness ==
    \E h, g \in 1..MaxInflight :
        /\ handlers[h].pc = "reply"
        /\ handlers[h].call.method = "publisherUpdate"
        /\ handlers[h].call.topic \notin DOMAIN subscribers
        /\ handlers[h].result[1] = failureStatus
        /\ handlers[g].pc = "reply"
        /\ handlers[g].call.method = "publisherUpdate"
        /\ handlers[g].call.publishers = << "p1", "p2" >>
        /\ handlers[g].result[1] = successStatus
        /\ Cardinality(DOMAIN subscribers) = 2

\* the step of handler h in which a requestTopic call returns
RequestTopicReturns(h) ==
    /\ handlers[h].pc = "idle"
    /\ handlers'[h].pc = "reply"
    /\ handlers'[h].call.method = "requestTopic"

\* what C6 says of the answer of handler h
RequestTopicContract(h) ==
    LET call == handlers'[h].call
        result == handlers'[h].result
        offered == \E i \in 1..Len(call.protocols) : call.protocols[i][1] = "TCPROS"
    IN  IF call.topic \notin DOMAIN publishers
        THEN /\ result # "error"
             /\ result[1] = failureStatus
        ELSE /\ result # "error"
             /\ result[1] = successStatus
             /\ result[3] = IF offered
                            THEN << "TCPROS", Hostname, publishers[call.topic].port >>
                            ELSE << >>

\* C6: requestTopic answers failure status when the node has no publisher for
\* the topic; otherwise success status with the value ["TCPROS", host, port]
\* of that publisher's listener, once, when a TCPROS entry is offered, and
\* the empty list when none is.
C6_RequestTopic ==
    [][\A h \in 1..MaxInflight :
          RequestTopicReturns(h) => RequestTopicContract(h)]_vars

\* a call that offered TCPROS twice, after another protocol or not, has been
\* answered for a topic with a publisher
C6_Witness ==
    \E h \in 1..MaxInflight :
        /\ handlers[h].pc = "reply"
        /\ handlers[h].call.method = "requestTopic"
        /\ handlers[h].call.topic \in DOMAIN publishers
        /\ handlers[h].call.protocols = << << "TCPROS" >>, << "TCPROS" >> >>
        /\ handlers[h].result[1] = successStatus
        /\ Len(handlers[h].result[3]) = 3
        /\ publishers[handlers[h].call.topic].port = 4711

\* NewSubscriber is inside a call that creates a subscriber
CreatingSubscriber == upc \in { "ns_store", "ns_send" }

\* the NewSubscriber calls begun, and the resolved name of the k-th
SubscriberCallsBegun == Len(subCalls) + (IF CreatingSubscriber THEN 1 ELSE 0)

SubscriberCallName(k) ==
    IF k <= Len(subCalls) THEN subCalls[k].name ELSE ulocal.name

\* the callbacks passed to the calls on `name`, in call order
CallbacksPassed(name) ==
    SelectSeq([k \in 1..SubscriberCallsBegun |-> k],
              LAMBDA k : SubscriberCallName(k) = name)

\* C7: registerSubscriber reaches Master at most once per resolved name, each
\* resolved name has one subscriber object of its own, every call on a name
\* returned that object, and its callbacks are exactly the callbacks passed
\* to the calls on that name, in call order.
C7_NewSubscriber ==
    /\ \A name \in DOMAIN master["registerSubscriber"] :
           master["registerSubscriber"][name] <= 1
    /\ \A n, m \in DOMAIN subscribers :
           subscribers[n].id = subscribers[m].id => n = m
    /\ \A k \in 1..Len(subCalls) :
           /\ subCalls[k].name \in DOMAIN subscribers
           /\ subCalls[k].ret = subscribers[subCalls[k].name].id
    /\ \A name \in DOMAIN subscribers :
           subscribers[name].callbacks = CallbacksPassed(name)

\* two calls with different topic strings that resolve to one name have
\* returned
C7_Witness ==
    /\ Len(subCalls) = 2
    /\ subCalls[1].name = subCalls[2].name
    /\ subCalls[1].ret = subCalls[2].ret
    /\ Len(subscribers[subCalls[1].name].callbacks) = 2
    /\ master["registerSubscriber"][subCalls[1].name] = 1

\* the place of a step in the order C8 gives
StepRank(step) ==
    CASE step = "ok"         -> 0
      [] step = "subscriber" -> 1
      [] step = "publisher"  -> 2
      [] step = "server"     -> 3
      [] step = "join"       -> 4
      [] step = "close"      -> 5
      [] step = "drain"      -> 6

\* the current Shutdown call has made this step
Stepped(step) == \E i \in DOMAIN sdTrace : sdTrace[i] = step

\* C8: a Shutdown call sets ok to false before it shuts an entity down, shuts
\* down every subscriber before any publisher and every publisher before any
\* service server, joins the background tasks after all of them and before
\* it closes the XML-RPC listener, and waits for the handlers last.
C8_ShutdownOrder ==
    /\ sdTrace # << >> => sdTrace[1] = "ok"
    /\ \A i, j \in DOMAIN sdTrace :
           i < j => /\ StepRank(sdTrace[i]) <= StepRank(sdTrace[j])
                    /\ sdTrace[j] \in { "ok", "join", "close", "drain" }
                       => StepRank(sdTrace[i]) < StepRank(sdTrace[j])
    /\ (\E n \in DOMAIN subscribers : ~subscribers[n].running) => ~ok
    /\ (\E n \in DOMAIN publishers : ~publishers[n].running) => ~ok
    /\ InShutdown =>
           /\ ~ok
           /\ Stepped("publisher") => \A n \in DOMAIN subscribers : ~subscribers[n].running
           /\ Stepped("server") => \A n \in DOMAIN publishers : ~publishers[n].running
           /\ Stepped("join") => AllShutDown /\ waitGroup = 0
           /\ xmlrpcListener = "open" => ~Stepped("close")
           /\ Stepped("close") => Stepped("join") /\ xmlrpcListener = "closed"
    /\ Stepped("drain") => Stepped("close") /\ Stepped("join")

\* a Shutdown call has gone through all its steps on a node with two
\* subscribers, a publisher and a service server
C8_Witness ==
    sdTrace = << "ok", "subscriber", "subscriber", "publisher", "server", "join",
                 "close", "drain" >>

\* the jobs put on the channel so far, in the order they were put
Enqueued == [i \in 1..(nextJob - 1) |-> i]

\* the jobs of the log, in the order they were run
ExecutedJobs == [i \in Ran |-> executed[i].job]

SpinLate == { i \in Ran : executed[i].by = "Spin" /\ ~executed[i].ok }

\* C10: Spin runs the queued jobs one at a time, oldest first, and does not
\* return while the node is OK; once ok is false it returns, having started at
\* most one more job.
C10_SpinReturns ==
    /\ ((spc \in { "check", "select" } /\ ~ok) ~> (spc = "done"))
    /\ [](spc = "done" => ~ok)
    /\ [](Cardinality(SpinLate) <= 1)
    /\ [][ (SpinSelect /\ executed' # executed) =>
             /\ jobChan # << >>
             /\ jobChan' = Tail(jobChan)
             /\ executed' = Append(executed, executed'[Len(executed')])
             /\ executed'[Len(executed')].job = Head(jobChan) ]_vars
    /\ [](\A i, j \in Ran :
            (i < j /\ executed[i].by = "Spin" /\ executed[j].by = "Spin")
               => executed[i].job < executed[j].job)

\* Spin has returned after running one job while the node was OK and one more
\* after ok had become false
C10_Witness ==
    /\ spc = "done"
    /\ \E i \in Ran : executed[i].by = "Spin" /\ executed[i].ok
    /\ SpinLate # {}

\* the slave API methods that are not implemented
NotImplemented == { "getBusStats", "getBusInfo", "paramUpdate" }

\* the answer is [status, message, value] with a status of the three
IsRosAPIResult(result) ==
    /\ result # "error"
    /\ result # "panic"
    /\ Len(result) = 3
    /\ result[1] \in { errorStatus, failureStatus, successStatus }

\* C11: every answer of a slave API method is a 3-tuple [status, message,
\* value] with status -1, 0 or 1, on every path; getBusStats, getBusInfo
\* and paramUpdate answer with status -1.
C11_ThreeTuple ==
    \A h \in 1..MaxInflight :
        handlers[h].pc = "reply" =>
            /\ IsRosAPIResult(handlers[h].result)
            /\ handlers[h].call.method \in NotImplemented
               => handlers[h].result[1] = errorStatus

\* ------------------------------------------------------------ construction

\* processArguments has run: its four outputs are in boot
Parsed == boot.pc \in { "params", "running", "failed" } /\ ~qualifyNodeName(boot.name).err

ContainsRemap(token) == SepPlaces(token, remapSep) # {}
ContainsNoRemap(token) == ~ContainsRemap(token)
\* the left side of a token: what stands before its first `:=`
LeftSide(token) == Split(token, remapSep)[1]
IsSpecialToken(token) ==
    ContainsRemap(token) /\ HasPrefix(LeftSide(token), << "_", "_" >>)
IsPrivateToken(token) ==
    /\ ContainsRemap(token)
    /\ HasPrefix(LeftSide(token), << "_" >>)
    /\ ~HasPrefix(LeftSide(token), << "_", "_" >>)
IsRemapToken(token) ==
    ContainsRemap(token) /\ ~HasPrefix(LeftSide(token), << "_" >>)

\* the outputs of processArguments a token is found in
OutputsOf(token) ==
    { "specials" : x \in { 1 } \cap { IF /\ IsSpecialToken(token)
                                         /\ LeftSide(token) \in DOMAIN boot.specials
                                      THEN 1 ELSE 0 } }
    \cup { "params" : x \in { 1 } \cap { IF /\ IsPrivateToken(token)
                                            /\ Tail(LeftSide(token)) \in DOMAIN boot.params
                                         THEN 1 ELSE 0 } }
    \cup { "mapping" : x \in { 1 } \cap { IF /\ IsRemapToken(token)
                                             /\ LeftSide(token) \in DOMAIN boot.mapping
                                          THEN 1 ELSE 0 } }
    \cup { "rest" : x \in { i \in 1..Len(boot.nonRosArgs) : boot.nonRosArgs[i] = token } }

\* the one output the token belongs to
OutputFor(token) ==
    IF ContainsNoRemap(token) THEN "rest"
    ELSE IF IsSpecialToken(token) THEN "specials"
    ELSE IF IsPrivateToken(token) THEN "params"
    ELSE "mapping"

\* C13: processArguments puts every token into exactly one of its four
\* outputs: a token with `:=` into specials (left side starts with `__`),
\* params (a single `_`) or mapping (otherwise), a token into the non-ROS args
\* exactly when it has no `:=`; the non-ROS args keep their input order.
C13_Classification ==
    Parsed =>
        /\ \A i \in 1..Len(boot.args) :
               OutputsOf(boot.args[i]) = { OutputFor(boot.args[i]) }
        /\ boot.nonRosArgs = SelectSeq(boot.args, ContainsNoRemap)

\* the private name of a parameter key: `~` and the key
PrivateName(key) == << "~" >> \o key
\* the places of the `_key:=value` tokens on the command line
PrivateTokens == { i \in 1..Len(boot.args) : IsPrivateToken(boot.args[i]) }

\* C12: when construction has returned a node, every `_key:=value` token was
\* pushed to Master by a setParam call with key `~key` and that value, and
\* there is one setParam call per such token.
C12_PrivateParams ==
    BootReturnedNode =>
        /\ \A i \in PrivateTokens :
               \E c \in 1..Len(boot.setParams) :
                   /\ boot.setParams[c][1] = PrivateName(Tail(LeftSide(boot.args[i])))
                   /\ boot.setParams[c][2] = Split(boot.args[i], remapSep)[2]
        /\ Len(boot.setParams) = Cardinality(PrivateTokens)

\* no Master URI is given: ROS_MASTER_URI is unset and no `__master:=` token
NoMasterURI ==
    /\ boot.env.ROS_MASTER_URI = EmptyStr
    /\ \A i \in 1..Len(boot.args) :
           ~(ContainsRemap(boot.args[i]) /\ LeftSide(boot.args[i]) = SpecialMaster)

\* C14: with no Master URI given, construction never returns a node and
\* never leaves an XML-RPC listener open.
C14_NoMasterURI ==
    (boot # Booted /\ NoMasterURI) =>
        /\ ~BootReturnedNode
        /\ xmlrpcListener # "open"

\* C15: the listen IP is the loopback address exactly when the advertised
\* hostname is `localhost`, starts with `127.` or is `::1`; otherwise the
\* node listens on all interfaces.
C15_ListenIP ==
    (Parsed /\ boot.pc # "failed") =>
        /\ IsLoopbackName(boot.hostname) => boot.listenIP = "127.0.0.1"
        /\ ~IsLoopbackName(boot.hostname) => boot.listenIP = "0.0.0.0"

\* ----------------------------------------------------------- message specs

\* the last call on the context was op and has returned
LastCall(op) == ctx.pc = "ready" /\ ctx.last.op = op
LastLoaded(op) == LastCall(op) /\ ~ctx.last.err

\* C16: once a spec is registered under a full name it stays the spec of
\* that name, the one every later LoadMsg of the name returns, for any
\* interleaving of LoadMsg, LoadMsgFromString, LoadSrv and LoadAction; and a
\* LoadMsg of a registered name reads no file and leaves the registry as it is.
C16_LoadMsgCached ==
    [][ \A fullname \in DOMAIN ctx.msgRegistry :
            /\ fullname \in DOMAIN ctx'.msgRegistry
            /\ ctx'.msgRegistry[fullname] = ctx.msgRegistry[fullname]
            /\ (ctx'.last.op = "LoadMsg" /\ ctx'.last.fullname = fullname)
                   => /\ ~ctx'.last.err
                      /\ ctx'.last.value = ctx.msgRegistry[fullname]
                      /\ ctx'.last.reads = << >>
                      /\ ctx'.msgRegistry = ctx.msgRegistry ]_vars

\* a full name the context can find: registered, or in the path map
Known(fullname) == fullname \in DOMAIN ctx.msgRegistry \/ fullname \in DOMAIN msgPathMap
\* the full names the fields of a message spec refer to
References(spec) ==
    { FullName(spec.Fields[i].Package, spec.Fields[i].Type) :
          i \in { j \in 1..Len(spec.Fields) : spec.Fields[j].Package # "" } }
ReferencesUnknown(spec) == \E fullname \in References(spec) : ~Known(fullname)

\* the message specs a call that returned without error has loaded or hashed
MsgSpecsOfLast ==
    IF ctx.last.op \in { "LoadMsg", "LoadMsgFromString" }
    THEN { ctx.last.value }
    ELSE IF ctx.last.op = "ComputeMsgMD5"
    THEN { ctx.msgRegistry[ctx.last.fullname] }
    ELSE IF ctx.last.op \in { "LoadSrv", "LoadSrvFromString" }
    THEN { ctx.last.value.Request, ctx.last.value.Response }
    ELSE IF ctx.last.op \in { "LoadAction", "LoadActionFromString" }
    THEN { ctx.last.value.Goal, ctx.last.value.Feedback, ctx.last.value.Result,
           ctx.last.value.ActionGoal, ctx.last.value.ActionFeedback,
           ctx.last.value.ActionResult }
    ELSE { }

\* C17: a load or a hash that needs a full name found neither in the
\* registry nor in the path map gives an error: LoadMsg of such a name does,
\* and so does loading or hashing a message, service or action one of whose
\* fields refers to such a name; no spec with an MD5 is returned.
C17_UnknownName ==
    /\ (LastCall("LoadMsg") /\ ~Known(ctx.last.fullname)) => ctx.last.err
    /\ (ctx.pc = "ready" /\ ctx.last.op # "NewMsgContext" /\ ~ctx.last.err)
           => \A spec \in MsgSpecsOfLast : ~ReferencesUnknown(spec)

\* the lines of a text that hold `---` and nothing else
SeparatorLines(text) ==
    LET lines == Split(text, NL)
    IN  { i \in 1..Len(lines) : lines[i] = << Dashes >> }
\* the call was refused for its sections: a syntax error and no spec
RejectedForSections == ctx.last.err /\ ctx.last.why = "missing ---" /\ ctx.last.value = << >>
WellNamed == ~packageResourceName(ctx.last.fullname).err

\* C18: a service text is accepted exactly when it has one line holding only
\* `---` (two sections), an action text exactly when it has two (three
\* sections); every other text is refused with a syntax error and no spec.
C18_Sections ==
    /\ (LastCall("LoadSrvFromString") /\ WellNamed)
           => (RejectedForSections <=> Cardinality(SeparatorLines(ctx.last.text)) # 1)
    /\ (LastCall("LoadActionFromString") /\ WellNamed)
           => (RejectedForSections <=> Cardinality(SeparatorLines(ctx.last.text)) # 2)

\* the i-th line of an MD5 text whose lines are joined by line breaks
MD5TextLine(md5text, i) == md5text[2 * i - 1]
\* a text of n lines joined by line breaks, none after the last
IsJoinedLines(md5text, n) ==
    /\ Len(md5text) = IF n = 0 THEN 0 ELSE 2 * n - 1
    /\ \A i \in 1..Len(md5text) : (md5text[i] = NL) <=> (i % 2 = 0)
\* the line a field contributes
IsLineOfField(line, f) ==
    IF f.Package = ""
    THEN line = FieldString(f)
    ELSE /\ FullName(f.Package, f.Type) \in DOMAIN ctx.msgRegistry
         /\ line = SubMD5Line(ctx.msgRegistry[FullName(f.Package, f.Type)].MD5Sum, f)
\* md5text is the MD5 text of spec
IsMD5TextOf(md5text, spec) ==
    LET nc == Len(spec.Constants)
        nf == Len(spec.Fields)
    IN  /\ IsJoinedLines(md5text, nc + nf)
        /\ \A i \in 1..nc : MD5TextLine(md5text, i) = ConstantMD5Line(spec.Constants[i])
        /\ \A i \in 1..nf : IsLineOfField(MD5TextLine(md5text, nc + i), spec.Fields[i])

\* the last call has computed the MD5 text of a message spec: a load from
\* a text or a file, or a hash
ComputedMD5 ==
    \/ LastLoaded("LoadMsgFromString")
    \/ LastLoaded("LoadMsg") /\ ctx.last.reads # << >>
    \/ LastLoaded("ComputeMsgMD5")
\* the spec it was computed for, and the MD5 computed
ComputedFor ==
    IF ctx.last.op = "ComputeMsgMD5" THEN ctx.msgRegistry[ctx.last.fullname] ELSE ctx.last.value
ComputedSum ==
    IF ctx.last.op = "ComputeMsgMD5" THEN ctx.last.value ELSE ctx.last.value.MD5Sum

\* C19: the MD5 text of a message spec is one line `TYPE NAME=VALUE_TEXT` per
\* constant in source order, then one line per field in source order
\* (`TYPE NAME` for a primitive, `<md5 of the referenced spec> NAME` for a
\* message type), joined by line breaks with none at the end.
C19_MD5Text ==
    ComputedMD5 =>
        \E md5text \in { ComputedSum[2] } :
            /\ ComputedSum = MD5(md5text)
            /\ IsMD5TextOf(md5text, ComputedFor)

\* the MD5 text of a spec the context holds
MD5TextOf(spec) == ComputeMD5Text([msgRegistry |-> ctx.msgRegistry, reads |-> << >>], spec).value

\* C20: a service's MD5 is the hash of the request's MD5 text directly
\* followed by the response's; an action's MD5 is the hash of the MD5 texts of
\* ActionGoal, ActionFeedback and ActionResult in that order, nothing between
\* them; the texts are hashed, never their digests.
C20_SrvActionMD5 ==
    /\ LastLoaded("LoadSrv")
           => ctx.last.value.MD5Sum
                  = MD5(MD5TextOf(ctx.last.value.Request) \o MD5TextOf(ctx.last.value.Response))
    /\ LastLoaded("LoadAction")
           => ctx.last.value.MD5Sum
                  = MD5(MD5TextOf(ctx.last.value.ActionGoal)
                        \o MD5TextOf(ctx.last.value.ActionFeedback)
                        \o MD5TextOf(ctx.last.value.ActionResult))

\* a service is loaded whose request and response have different MD5 texts,
\* neither empty
C20_Witness ==
    /\ LastLoaded("LoadSrv")
    /\ MD5TextOf(ctx.last.value.Request) # << >>
    /\ MD5TextOf(ctx.last.value.Response) # << >>
    /\ MD5TextOf(ctx.last.value.Request) # MD5TextOf(ctx.last.value.Response)

\* the k-th line of text that holds only `---`
SeparatorLine(text, k) ==
    CHOOSE i \in SeparatorLines(text) :
        Cardinality({ j \in SeparatorLines(text) : j < i }) = k - 1

RECURSIVE JoinLines(_)
\* lines joined by line breaks
JoinLines(lines) ==
    IF lines = << >> THEN << >>
    ELSE IF Len(lines) = 1 THEN lines[1]
    ELSE lines[1] \o << NL >> \o JoinLines(Tail(lines))

\* the k-th section of a text: the lines between its separator lines
Section(text, k) ==
    LET lines == Split(text, NL)
        n == Cardinality(SeparatorLines(text))
        from == IF k = 1 THEN 1 ELSE SeparatorLine(text, k - 1) + 1
        to == IF k = n + 1 THEN Len(lines) ELSE SeparatorLine(text, k) - 1
    IN  JoinLines(SubSeq(lines, from, to))

\* spec has the fields and constants of the lines of section
ParsedFrom(spec, section) ==
    /\ ~parseLines(section).err
    /\ spec.Fields = parseLines(section).fields
    /\ spec.Constants = parseLines(section).constants

\* spec is a top-level action message: Header, then the field of the given
\* actionlib type and name, then one of type part named name, which is the
\* registered spec inner
IsActionMessage(spec, actionlib, libName, part, name, inner) ==
    /\ Len(spec.Fields) = 3
    /\ spec.Constants = << >>
    /\ spec.Fields[1] = FieldText("", << "Header" >>, "header")
    /\ spec.Fields[2] = FieldText(actionlib.Package, actionlib.Short, libName)
    /\ spec.Fields[3] = FieldText(part.Package, part.Short, name)
    /\ part \in DOMAIN ctx.msgRegistry
    /\ ctx.msgRegistry[part] = inner

\* an action has been loaded from a text of three sections
ActionLoaded ==
    /\ \/ LastLoaded("LoadActionFromString")
       \/ LastLoaded("LoadAction")
    /\ Cardinality(SeparatorLines(ctx.last.value.Text)) = 2

\* C21: an action F loaded from a three-section text has six message specs:
\* Goal, Result, Feedback parsed from the first, second and third section, and
\* ActionGoal, ActionResult, ActionFeedback of three fields each: `Header
\* header`, `actionlib_msgs/GoalID goal_id` or `actionlib_msgs/GoalStatus
\* status`, and a field goal / result / feedback of type FGoal / FResult /
\* FFeedback whose type is registered as the spec of the matching section.
C21_ActionSpecs ==
    ActionLoaded =>
        LET action == ctx.last.value
            F == action.FullName
        IN  /\ ParsedFrom(action.Goal, Section(action.Text, 1))
            /\ ParsedFrom(action.Result, Section(action.Text, 2))
            /\ ParsedFrom(action.Feedback, Section(action.Text, 3))
            /\ action.Goal.FullName = Suffixed(F, "Goal")
            /\ action.Result.FullName = Suffixed(F, "Result")
            /\ action.Feedback.FullName = Suffixed(F, "Feedback")
            /\ IsActionMessage(action.ActionGoal, GoalID, "goal_id",
                               Suffixed(F, "Goal"), "goal", action.Goal)
            /\ IsActionMessage(action.ActionResult, GoalStatus, "status",
                               Suffixed(F, "Result"), "result", action.Result)
            /\ IsActionMessage(action.ActionFeedback, GoalStatus, "status",
                               Suffixed(F, "Feedback"), "feedback", action.Feedback)

\* an action is loaded whose three sections differ
C21_Witness ==
    /\ ActionLoaded
    /\ ctx.last.op = "LoadActionFromString"
    /\ ctx.last.value.Goal.Fields # ctx.last.value.Result.Fields
    /\ ctx.last.value.Result.Fields # ctx.last.value.Feedback.Fields
    /\ ctx.last.value.Goal.Fields # ctx.last.value.Feedback.Fields

\* C26: a load from a text that returns an error (a syntax error in a line
\* or a section, a wrong number of sections, a bad full name) leaves the
\* registry with exactly the entries it had before the call.
C26_FailedLoadFrame ==
    [][ ( /\ ctx'.last.op \in { "LoadMsgFromString", "LoadSrvFromString",
                                "LoadActionFromString" }
          /\ ctx'.last.err )
        => ctx'.msgRegistry = ctx.msgRegistry ]_vars

\* ---------------------------------------------------------------- the ok flag

\* a handler takes a shutdown call of a peer and has its answer ready
ShutdownRpcServed ==
    \E h \in 1..MaxInflight :
        /\ handlers[h].pc = "idle"
        /\ handlers'[h].pc = "reply"
        /\ handlers'[h].call.method = "shutdown"

\* the signal goroutine has taken the interrupt
InterruptTaken == interruptChan = "armed" /\ interruptChan' = "done"

\* Shutdown is called
ShutdownCalled == shutdownCalls' = shutdownCalls + 1

\* C23: the ok flag is true from construction and only ever goes from true
\* to false: once OK() is false it is false in every later state, and a step
\* that takes the interrupt signal, serves the slave shutdown call or calls
\* Shutdown leaves OK() false.
C23_OkOnlyFalls ==
    [][ /\ ~OK => ~OK'
        /\ (InterruptTaken \/ ShutdownRpcServed \/ ShutdownCalled) => ~OK' ]_vars

\* the flag has been cleared by all three: the signal, a peer and Shutdown
C23_Witness ==
    /\ ~OK
    /\ interruptChan = "done"
    /\ shutdownCalls > 0
    /\ \E h \in 1..MaxInflight :
            handlers[h].pc = "reply" /\ handlers[h].call.method = "shutdown"

\* ------------------------------------------------ the first publisher list

\* NewSubscriber has stored its new subscriber and not yet sent it the list
\* registerSubscriber returned
AwaitsRegistrationList(name) ==
    upc = "ns_send" /\ ulocal.name = name

\* a list is sent on the pub-list channel of the subscriber in this step
ListSent(name) ==
    /\ name \in DOMAIN subscribers /\ name \in DOMAIN subscribers'
    /\ Len(subscribers'[name].pubListChan) > Len(subscribers[name].pubListChan)

\* C24: the list registerSubscriber returned is the first list sent on the
\* pub-list channel of a newly created subscriber: while NewSubscriber has
\* not sent it, no list of a publisherUpdate for that topic is sent.
C24_RegistrationListFirst ==
    [][ \A name \in AllTopics :
            (AwaitsRegistrationList(name) /\ ListSent(name))
            => /\ upc' = "idle"
               /\ subscribers'[name].pubListChan
                    = Append(subscribers[name].pubListChan, ulocal.publishers) ]_vars

\* ------------------------------------------------------------ the map locks

\* a publisherUpdate handler reads node.subscribers[topic] in this step; the
\* handler takes no lock for it
UnlockedSubscribersRead ==
    \/ \E h \in 1..MaxInflight :
            /\ handlers[h].pc = "idle"
            /\ handlers'[h].pc \in { "send", "reply" }
            /\ handlers'[h].call.method = "publisherUpdate"
    \/ upc' = "fatal" /\ upc # "fatal"

\* C22: every read and write of the publishers, subscribers and servers maps
\* is made with the lock of the map held, so that no read made without the
\* lock runs while a write of the map is under way: here, no handler reads
\* node.subscribers while NewSubscriber stores into it.
C22_MapsLocked ==
    [][ UnlockedSubscribersRead => ~Storing ]_vars

\* ------------------------------------------------- publishers by their topic

\* calls i and j (i first) of the same function with the same topic
SameTopicAgain(i, j) ==
    /\ i < j
    /\ pubCalls[i].api = pubCalls[j].api
    /\ pubCalls[i].topic = pubCalls[j].topic

\* how often Master was asked to register a publisher of the topic name
Registrations(name) ==
    IF name \in DOMAIN master["registerPublisher"]
    THEN master["registerPublisher"][name] ELSE 0

\* C25: NewPublisher or NewPublisherWithCallbacks called again with the same
\* topic calls registerPublisher once, creates one publisher and returns that
\* publisher each time, and the key the publisher is stored under is the key
\* the later call looks it up by.
C25_OnePublisherPerTopic ==
    \A i, j \in DOMAIN pubCalls :
        SameTopicAgain(i, j)
        => /\ pubCalls[j].ret = pubCalls[i].ret
           /\ Registrations(remap(pubCalls[i].topic)) = 1
           /\ pubCalls[i].topic \in DOMAIN publishers
           /\ publishers[pubCalls[i].topic].id = pubCalls[i].ret

\* ------------------------------------------------------ the service servers

\* C27: after any NewServiceServer calls and before Shutdown, the server the
\* servers map holds under a service name is live: a server in the map is
\* shut down only to be replaced, and none on which Shutdown was called stays
\* in the map, also when creating its replacement fails.
C27_ServersLive ==
    shutdownCalls = 0
    => \A name \in DOMAIN servers : servers[name].live

====
